---- MODULE Spec2Model ----
(***************************************************************************)
(* PM5 rowing-monitor client: the binary telemetry codec (parsers.js) and  *)
(* the connection / subscription state machine of PM5Device (device.js in  *)
(* its three variants).                                                    *)
(***************************************************************************)
EXTENDS Integers, Naturals, Sequences, FiniteSets, TLC

(***************************************************************************)
(* Bounds of the model.                                                    *)
(***************************************************************************)
\* longest frame fed to the decoders (the longest record, multiplexed, is 21)
MaxFrameLen == 22

(***************************************************************************)
(* Frames.  A frame is a sequence of bytes; offset i of the DataView is    *)
(* element i+1 of the sequence.                                            *)
(***************************************************************************)
\* byte values used to fill the sample frames
FillBytes == {0, 100}
\* byte values poked into one position of a sample frame
PokeBytes == {1, 255}

\* the frame of length len filled with fill, with byte at offset at replaced
MkFrame(len, fill, at, val) ==
    [i \in 1..len |-> IF i = at + 1 THEN val ELSE fill]

\* the frames of the record decoders: every length, one position changed
RecordFrames ==
    { MkFrame(len, fill, at, val) :
        len \in 0..MaxFrameLen, fill \in FillBytes,
        at \in 0..MaxFrameLen, val \in PokeBytes }

\* the tag bytes parseMultiplexedData has a case for
KnownTags == {49, 50, 53, 55}

\* multiplexed frames of a known tag: the tag byte, then a payload of every
\* length with one position changed
TaggedFrames ==
    { <<tag>> \o MkFrame(len, 100, at, val) :
        tag \in KnownTags, len \in 0..(MaxFrameLen - 1),
        at \in 0..(MaxFrameLen - 1), val \in PokeBytes }

\* multiplexed frames of every other tag byte, of every length from the tag
\* byte alone
UntaggedFrames ==
    { <<tag>> \o MkFrame(len, 100, 0, 100) :
        tag \in (0..255) \ KnownTags, len \in 0..(MaxFrameLen - 1) }

\* the general status frame 64 00 00 E8 03 00 01 00 01 01 02 00 .. 00 73
SampleGeneralStatus ==
    <<100, 0, 0, 232, 3, 0, 1, 0, 1, 1, 2, 0, 0, 0, 0, 0, 0, 0, 115>>

\* byte values at the edges of the byte range and of the sign bit
EdgeBytes == {0, 1, 127, 128, 255}

\* the three-byte frames of the integer readers
IntFrames == [1..3 -> EdgeBytes]

\* the sample frames
Frames ==
    RecordFrames \cup TaggedFrames \cup UntaggedFrames
                 \cup {SampleGeneralStatus} \cup IntFrames

\* the first n bytes of a frame
Prefix(f, n) == IF Len(f) <= n THEN f ELSE SubSeq(f, 1, n)

\* DataView.getUint8(offset)
getUint8(f, offset) == f[offset + 1]

\* seeded fault: the 16-bit read is big-endian
readInt16BE(f, offset) == getUint8(f, offset) * 256 + getUint8(f, offset + 1)

\* readInt16LE: DataView.getUint16(offset, true)
readInt16LE(f, offset) == getUint8(f, offset) + getUint8(f, offset + 1) * 256

\* seeded fault: the 24-bit read is big-endian
readInt24BE(f, offset) ==
    getUint8(f, offset) * 65536 + getUint8(f, offset + 1) * 256
                                + getUint8(f, offset + 2)

\* seeded fault: the 24-bit value is sign-extended from bit 23
readInt24Signed(f, offset) ==
    LET v == getUint8(f, offset) + getUint8(f, offset + 1) * 256
                                 + getUint8(f, offset + 2) * 65536
    IN IF v >= 8388608 THEN v - 16777216 ELSE v

\* readInt24LE: b0 + (b1 << 8) + (b2 << 16); a byte shifted left by 16 is
\* below 2^31, so the 32-bit signed result of << is the product
readInt24LE(f, offset) ==
    getUint8(f, offset) + getUint8(f, offset + 1) * 256
                        + getUint8(f, offset + 2) * 65536

\* seeded fault: the scale factor is dropped
ScaledUnit(raw, den) == [raw |-> raw, den |-> 1]

\* a raw integer multiplied by a scale factor 1/den (0.01, 0.1, 0.001), kept
\* as the pair so that the factor is part of the value
Scaled(raw, den) == [raw |-> raw, den |-> den]

\* the Error thrown by a decoder on a short frame: both lengths are reported
FormatError(what, actual, expected) ==
    [ok |-> FALSE, what |-> what, actual |-> actual, expected |-> expected]

Decoded(rec) == [ok |-> TRUE, rec |-> rec]

GeneralStatusLen == 19
AdditionalStatusLen == 16
StrokeDataLen == 20
SplitDataLen == 18

\* seeded fault: the decoders take a multiplexed frame for a direct one
MuxOffsetDirect(isMultiplexed) == 0

\* const offset = isMultiplexed ? 1 : 0
MuxOffset(isMultiplexed) == IF isMultiplexed THEN 1 ELSE 0

parseGeneralStatus(f, isMultiplexed) ==
    LET offset == MuxOffset(isMultiplexed) IN
    IF Len(f) < GeneralStatusLen + offset
    THEN FormatError("general status", Len(f), GeneralStatusLen + offset)
    ELSE Decoded([
        elapsed_time          |-> Scaled(readInt24LE(f, offset + 0), 100),
        distance              |-> Scaled(readInt24LE(f, offset + 3), 10),
        workout_type          |-> getUint8(f, offset + 6),
        interval_type         |-> getUint8(f, offset + 7),
        workout_state         |-> getUint8(f, offset + 8),
        rowing_state          |-> getUint8(f, offset + 9),
        stroke_state          |-> getUint8(f, offset + 10),
        total_work_distance   |-> readInt24LE(f, offset + 11),
        workout_duration      |-> readInt24LE(f, offset + 14),
        workout_duration_type |-> getUint8(f, offset + 17),
        drag_factor           |-> getUint8(f, offset + 18) ])

parseAdditionalStatus(f, isMultiplexed) ==
    LET offset == MuxOffset(isMultiplexed) IN
    IF Len(f) < AdditionalStatusLen + offset
    THEN FormatError("additional status", Len(f), AdditionalStatusLen + offset)
    ELSE Decoded([
        elapsed_time  |-> Scaled(readInt24LE(f, offset + 0), 100),
        speed         |-> Scaled(readInt16LE(f, offset + 3), 1000),
        stroke_rate   |-> getUint8(f, offset + 5),
        heart_rate    |-> getUint8(f, offset + 6),
        current_pace  |-> Scaled(readInt16LE(f, offset + 7), 100),
        average_pace  |-> Scaled(readInt16LE(f, offset + 9), 100),
        rest_distance |-> readInt16LE(f, offset + 11),
        rest_time     |-> Scaled(readInt24LE(f, offset + 13), 100) ])

parseStrokeData(f, isMultiplexed) ==
    LET offset == MuxOffset(isMultiplexed) IN
    IF Len(f) < StrokeDataLen + offset
    THEN FormatError("stroke data", Len(f), StrokeDataLen + offset)
    ELSE Decoded([
        elapsed_time         |-> Scaled(readInt24LE(f, offset + 0), 100),
        distance             |-> Scaled(readInt24LE(f, offset + 3), 10),
        drive_length         |-> Scaled(getUint8(f, offset + 6), 100),
        drive_time           |-> Scaled(getUint8(f, offset + 7), 100),
        stroke_recovery_time |-> Scaled(readInt16LE(f, offset + 8), 100),
        stroke_distance      |-> Scaled(readInt16LE(f, offset + 10), 100),
        peak_drive_force     |-> Scaled(readInt16LE(f, offset + 12), 10),
        average_drive_force  |-> Scaled(readInt16LE(f, offset + 14), 10),
        work_per_stroke      |-> Scaled(readInt16LE(f, offset + 16), 10),
        stroke_count         |-> readInt16LE(f, offset + 18) ])

\* seeded fault: the split decoder reads rest_time and rest_distance from
\* each other's offsets
parseSplitIntervalDataSwapped(f, isMultiplexed) ==
    LET offset == MuxOffset(isMultiplexed) IN
    IF Len(f) < SplitDataLen + offset
    THEN FormatError("split data", Len(f), SplitDataLen + offset)
    ELSE Decoded([
        elapsed_time   |-> Scaled(readInt24LE(f, offset + 0), 100),
        distance       |-> Scaled(readInt24LE(f, offset + 3), 10),
        split_time     |-> Scaled(readInt24LE(f, offset + 6), 10),
        split_distance |-> Scaled(readInt24LE(f, offset + 9), 10),
        rest_time      |-> readInt16LE(f, offset + 14),
        rest_distance  |-> readInt16LE(f, offset + 12),
        split_type     |-> getUint8(f, offset + 16),
        split_number   |-> getUint8(f, offset + 17) ])

parseSplitIntervalData(f, isMultiplexed) ==
    LET offset == MuxOffset(isMultiplexed) IN
    IF Len(f) < SplitDataLen + offset
    THEN FormatError("split data", Len(f), SplitDataLen + offset)
    ELSE Decoded([
        elapsed_time   |-> Scaled(readInt24LE(f, offset + 0), 100),
        distance       |-> Scaled(readInt24LE(f, offset + 3), 10),
        split_time     |-> Scaled(readInt24LE(f, offset + 6), 10),
        split_distance |-> Scaled(readInt24LE(f, offset + 9), 10),
        rest_time      |-> readInt16LE(f, offset + 12),
        rest_distance  |-> readInt16LE(f, offset + 14),
        split_type     |-> getUint8(f, offset + 16),
        split_number   |-> getUint8(f, offset + 17) ])

\* the four record decoders by name
RecordKinds == {"general_status", "additional_status", "stroke_data", "split_data"}

\* the length constant each decoder compares against
MinLength(kind) ==
    CASE kind = "general_status"    -> GeneralStatusLen
      [] kind = "additional_status" -> AdditionalStatusLen
      [] kind = "stroke_data"       -> StrokeDataLen
      [] kind = "split_data"        -> SplitDataLen

\* the decoder the caller invokes for a record kind
parse(kind, f, isMultiplexed) ==
    CASE kind = "general_status"    -> parseGeneralStatus(f, isMultiplexed)
      [] kind = "additional_status" -> parseAdditionalStatus(f, isMultiplexed)
      [] kind = "stroke_data"       -> parseStrokeData(f, isMultiplexed)
      [] kind = "split_data"        -> parseSplitIntervalData(f, isMultiplexed)

\* parseMultiplexedData: byte 0 selects the record decoder, whose Error
\* propagates; any other tag is the 'unknown' outcome, whose data is null; on
\* an empty frame getUint8(0) throws a RangeError
\* seeded fault: every routed record is labelled general_status
RoutedAsGeneral(type, res) ==
    IF res.ok THEN [ok |-> TRUE, type |-> "general_status", data |-> res.rec]
    ELSE res

Routed(type, res) ==
    IF res.ok THEN [ok |-> TRUE, type |-> type, data |-> res.rec] ELSE res

\* seeded fault: a tag without a case is an error
parseMultiplexedDataStrict(f) ==
    IF Len(f) = 0 \/ getUint8(f, 0) \notin {49, 50, 53, 55}
    THEN [ok |-> FALSE, what |-> "RangeError", actual |-> Len(f), expected |-> 1]
    ELSE LET uuid == getUint8(f, 0) IN
         CASE uuid = 49 -> Routed("general_status", parseGeneralStatus(f, TRUE))
           [] uuid = 50 -> Routed("additional_status", parseAdditionalStatus(f, TRUE))
           [] uuid = 53 -> Routed("stroke_data", parseStrokeData(f, TRUE))
           [] uuid = 55 -> Routed("split_data", parseSplitIntervalData(f, TRUE))

parseMultiplexedData(f) ==
    IF Len(f) = 0
    THEN [ok |-> FALSE, what |-> "RangeError", actual |-> 0, expected |-> 1]
    ELSE LET uuid == getUint8(f, 0) IN
         CASE uuid = 49 -> Routed("general_status", parseGeneralStatus(f, TRUE))
           [] uuid = 50 -> Routed("additional_status", parseAdditionalStatus(f, TRUE))
           [] uuid = 53 -> Routed("stroke_data", parseStrokeData(f, TRUE))
           [] uuid = 55 -> Routed("split_data", parseSplitIntervalData(f, TRUE))
           [] OTHER     -> [ok |-> TRUE, type |-> "unknown", uuid |-> uuid,
                            data |-> "null"]

(***************************************************************************)
(* The command codec (csafe.js) and the write of sendCSAFECommand.  A      *)
(* command frame is the opcode byte, the number of parameter bytes, the    *)
(* parameter bytes and a checksum byte over all of them.                   *)
(***************************************************************************)
RECURSIVE SumBytes(_)
SumBytes(bytes) ==
    IF bytes = << >> THEN 0 ELSE bytes[1] + SumBytes(Tail(bytes))

\* the integrity check of a frame body
Checksum(body) == SumBytes(body) % 256

\* commandBuilder.build(): the frame of one command
EncodeCommand(opcode, params) ==
    LET body == <<opcode, Len(params)>> \o params
    IN body \o <<Checksum(body)>>

\* the decoder of a command frame: a frame shorter than opcode, length and
\* checksum, or than its length byte announces, is a FormatError
DecodeCommand(bytes) ==
    IF Len(bytes) < 3
    THEN FormatError("command", Len(bytes), 3)
    ELSE IF Len(bytes) < 3 + bytes[2]
    THEN FormatError("command", Len(bytes), 3 + bytes[2])
    ELSE LET body == SubSeq(bytes, 1, 2 + bytes[2]) IN
         IF bytes[3 + bytes[2]] # Checksum(body)
         THEN [ok |-> FALSE, what |-> "checksum", actual |-> bytes[3 + bytes[2]],
               expected |-> Checksum(body)]
         ELSE [ok |-> TRUE, opcode |-> bytes[1],
               params |-> SubSeq(bytes, 3, 2 + bytes[2])]

\* seeded fault: the write sends only the 20 bytes that fit one packet of
\* the default MTU
WrittenBytesOnePacket(command) ==
    IF Len(command) <= 20 THEN command ELSE SubSeq(command, 1, 20)

\* the bytes sendCSAFECommand hands to transmitChar.writeValue: the built
\* command as it is
WrittenBytes(command) == command

(***************************************************************************)
(* The hex string of sendControlBytes.  A string is a sequence of          *)
(* one-character strings.                                                  *)
(***************************************************************************)
\* longest hex string handed to sendControlBytes
MaxHexLen == 4

\* the characters of the sample strings: hex digits of both cases, a
\* separator, and letters that are not hex digits
SampleChars == {"0", "1", "9", "a", "f", "A", "F", " ", "g", "x"}

HexStrings == UNION { [1..n -> SampleChars] : n \in 0..MaxHexLen }

\* the characters the class [0-9a-fA-F] matches
LowerDigits == <<"0", "1", "2", "3", "4", "5", "6", "7", "8", "9",
                 "a", "b", "c", "d", "e", "f">>
UpperDigits == <<"0", "1", "2", "3", "4", "5", "6", "7", "8", "9",
                 "A", "B", "C", "D", "E", "F">>
IsHexDigit(ch) ==
    \E d \in 1..16 : ch = LowerDigits[d] \/ ch = UpperDigits[d]

\* hexString.replace(/[^0-9a-fA-F]/g, '')
cleanHex(hexString) == SelectSeq(hexString, IsHexDigit)

\* the value of one hex digit
DigitValue(ch) ==
    (CHOOSE d \in 1..16 : ch = LowerDigits[d] \/ ch = UpperDigits[d]) - 1

\* seeded fault: the two digits of a pair are read in the reverse order
parseIntSwapped(hi, lo) == 16 * DigitValue(lo) + DigitValue(hi)

\* parseInt(cleanHex.substr(i, 2), 16) for the two digits of a pair
parseInt(hi, lo) == 16 * DigitValue(hi) + DigitValue(lo)

\* the loop that fills the Uint8Array, from digit i (1-based) on
RECURSIVE HexBytes(_, _)
HexBytes(clean, i) ==
    IF i > Len(clean) THEN << >>
    ELSE <<parseInt(clean[i], clean[i + 1])>> \o HexBytes(clean, i + 2)

\* sendControlBytes(hexString) with the TX characteristic at hand: the Error
\* thrown for an odd number of digits, or the frames handed to writeValue
sendControlBytes(hexString) ==
    LET clean == cleanHex(hexString) IN
    IF Len(clean) % 2 # 0
    THEN [ok |-> FALSE, what |-> "odd", written |-> << >>]
    ELSE [ok |-> TRUE, what |-> "none", written |-> <<HexBytes(clean, 1)>>]

(***************************************************************************)
(* State.                                                                  *)
(***************************************************************************)
VARIABLES
    \* the codec under test
    frame,          \* the bytes of the DataView under decode
    call,           \* the last decode call: [kind, mux]
    decoded,        \* what that call returned or threw
    \* the peripheral and the Bluetooth stack (the transport)
    deviceCaps,     \* services and optional characteristics the peripheral has
    linkUp,         \* device.gatt.connected
    notifying,      \* characteristics whose notifications are switched on
    late,           \* characteristics switched off on this link, of which a
                    \* notification sent earlier may still be dispatched
    listeners,      \* characteristicvaluechanged listeners on the live
                    \* characteristic objects, per characteristic
    rawListeners,   \* listeners of the generic monitor on the live
                    \* characteristic objects, per characteristic
    faults,         \* transient GATT failures injected so far
    \* the PM5Device object
    variant,        \* which of the three PM5Device sources this object is
    deviceInfo,     \* this.deviceInfo, per field "null" or the text read
    server,         \* this.server
    services,       \* this.services, per entry "unset", "live" or "stale"
    isConnected,    \* this.isConnected
    observers,      \* the on... callback properties that are not null
    discovered,     \* this.notifyCapableCharacteristics: "none", or the
                    \* list, whose characteristic objects are "live" or "stale"
    activeSub,      \* this.activeCharacteristicSubscription
    \* the asynchronous operations in flight
    connectPc,      \* where connect() is suspended, or "idle"
    connectResult,  \* how the last connect() settled
    op,             \* the stream operation in flight: [name, k]
    opResult,       \* the stream operation that has just returned, and how;
                    \* cleared by the next step other than a notification
    \* what the consumer has observed
    lastNotif,      \* the notification dispatched by the latest step and the
                    \* observer invocations it made
    linkDrops,      \* gattserverdisconnected events of the latest step
    disconnectedCalls, \* onDisconnected invocations made by the latest step
    teardown,       \* how the link went down in the latest step, and which
                    \* streams were stopped for it
    infoFailed,     \* the device-information reads that failed in the
                    \* latest step
    \* what only the specifications of overlapping calls and of a replaced
    \* PM5Device change
    inflight,       \* the subscribeToCharacteristic invocations suspended at
                    \* an await, per invocation
    retired         \* PM5Device objects the consumer has replaced, whose
                    \* gattserverdisconnected listener is still on the device

codecVars == <<frame, call, decoded>>
transportVars == <<deviceCaps, linkUp, notifying, late, listeners, rawListeners,
                   faults>>
monitorVars == <<discovered, activeSub>>
deviceVars == <<variant, deviceInfo, server, services, isConnected, observers,
                monitorVars>>
asyncVars == <<connectPc, connectResult, op>>
stepVars == <<opResult, lastNotif, linkDrops, disconnectedCalls, teardown,
              infoFailed>>
scenarioVars == <<inflight, retired>>
sessionVars == <<transportVars, deviceVars, asyncVars, stepVars, scenarioVars>>
vars == <<codecVars, sessionVars>>

(***************************************************************************)
(* The peripheral, the three PM5Device sources and their constants.        *)
(***************************************************************************)
\* "device": src/device.js; "monitor": the source with the control service
\* and the generic characteristic monitor; "csafe": the source with the
\* multiplexed stream and the CSAFE commands
Variants == {"device", "monitor", "csafe"}

ServiceNames == {"information", "control", "rowing"}

\* the services getServices / discoverServices asks for, in its order
ServiceOrder(v) ==
    IF v = "device" THEN <<"information", "rowing">>
    ELSE <<"information", "control", "rowing">>

\* the dedicated rowing characteristics, in the order they are started
DedicatedChars ==
    <<"general_status", "additional_status", "stroke_data", "split_data">>

Chars == {"general_status", "additional_status", "stroke_data", "split_data",
          "multiplexed", "control_rx"}

\* the uuids handed to subscribeToCharacteristic: two notify-capable
\* characteristics of the peripheral and one it does not have
MonitorUuids == {"general_status", "control_rx", "unlisted"}

\* the characteristics stopRowingDataNotifications walks through
StopOrder(v) ==
    IF v = "csafe" THEN DedicatedChars \o <<"multiplexed">> ELSE DedicatedChars

\* what a peripheral can offer; a profile lacks at most one capability
FullDevice == ServiceNames \cup {"multiplexed"}

DeviceProfiles(v) ==
    {FullDevice, FullDevice \ {"rowing"}}
    \cup (IF v = "device" THEN {} ELSE {FullDevice \ {"control"}})
    \cup (IF v = "csafe" THEN {FullDevice \ {"multiplexed"}} ELSE {})

\* the callback properties of PM5Device the consumer assigns
AllObservers == {"onDisconnected", "onWorkoutData", "onStrokeData", "onSplitData",
                 "onControlRxData", "onCharacteristicData"}

\* most transient GATT failures (a start or a stop of notifications that the
\* stack rejects although the link is up) in one behaviour
MaxFaults == 1
\* most listeners startRowingDataNotifications is let to pile up on one
\* characteristic
MaxListeners == 2

\* a stream operation in flight: its name, the await it is suspended at,
\* whether it was called while the session was not Ready, whether it has
\* added a listener, and the uuid it was given
Idle == [name |-> "idle", k |-> 0, cold |-> FALSE, attached |-> FALSE,
         uuid |-> "none"]
NoOp == [name |-> "none", cold |-> FALSE, result |-> "none", attached |-> FALSE,
         uuid |-> "none"]
\* no notification: the characteristic notified and the invocations of the
\* rowing observers, of onControlRxData and of onCharacteristicData
NoNotif == [char |-> "none", wellFormed |-> FALSE, type |-> "none",
            observer |-> "none", data |-> 0, rx |-> 0, raw |-> 0,
            errors |-> 0, escaped |-> FALSE, threw |-> FALSE]
\* the link did not go down: who took it down, the streams switched on at
\* that moment, and those of them stopNotifications() was requested on
NoTeardown == [by |-> "none", wasUp |-> FALSE, was |-> {}, stops |-> {}]
NoSub == [uuid |-> "null", live |-> FALSE, attached |-> FALSE]
\* the invocations of subscribeToCharacteristic that may overlap
Invocations == {1, 2}
\* an invocation that is not running: the await it is suspended at, the uuid
\* it was given, and the subscription it destructured before its await
NotRunning == [pc |-> "idle", uuid |-> "none", was |-> NoSub, cold |-> FALSE]

Settled(o, result) ==
    [name |-> o.name, cold |-> o.cold, result |-> result,
     attached |-> o.attached, uuid |-> o.uuid]

\* the step dispatches no event
NoEvents ==
    /\ lastNotif' = NoNotif
    /\ linkDrops' = 0
    /\ disconnectedCalls' = 0
    /\ teardown' = NoTeardown
    /\ infoFailed' = {}
\* the step dispatches no event and no stream operation returns in it
Quiet == opResult' = NoOp /\ NoEvents

\* the fields of this.deviceInfo
InfoFields ==
    {"model", "serialNumber", "firmwareVersion", "hardwareRevision",
     "manufacturerName", "connectedMachineType"}

InitSession ==
    /\ deviceCaps \in DeviceProfiles(variant)
    /\ linkUp = FALSE
    /\ notifying = {}
    /\ late = {}
    /\ listeners = [c \in Chars |-> 0]
    /\ rawListeners = [c \in Chars |-> 0]
    /\ faults = 0
    /\ deviceInfo = [f \in InfoFields |-> "null"]
    /\ infoFailed = {}
    /\ server = "null"
    /\ services = [s \in ServiceNames |-> "unset"]
    /\ isConnected = FALSE
    /\ observers = {}
    /\ discovered = "none"
    /\ activeSub = NoSub
    /\ connectPc = "idle"
    /\ connectResult = "none"
    /\ op = Idle
    /\ opResult = NoOp
    /\ lastNotif = NoNotif
    /\ linkDrops = 0
    /\ disconnectedCalls = 0
    /\ teardown = NoTeardown
    /\ inflight = [i \in Invocations |-> NotRunning]
    /\ retired = 0

(***************************************************************************)
(* The consumer sets its callbacks right after constructing the PM5Device. *)
(***************************************************************************)
SetObservers ==
    /\ observers = {}
    /\ connectPc = "idle"
    /\ connectResult = "none"
    /\ observers' = AllObservers
    /\ UNCHANGED <<codecVars, scenarioVars, transportVars, variant, deviceInfo, server, services,
                   isConnected, monitorVars, asyncVars>>
    /\ Quiet

(***************************************************************************)
(* connect()                                                               *)
(***************************************************************************)
\* csafe sets isConnected as soon as gatt.connect() has resolved, the other
\* two only when connect() has run to its end
ConnectedAfterGatt(v, was) == IF v = "csafe" THEN TRUE ELSE was
ConnectedAtEnd(v, was) == IF v = "csafe" THEN was ELSE TRUE
\* the catch block of connect(): csafe resets the flag, the others leave it
ConnectedAfterThrow(v, was) == IF v = "csafe" THEN FALSE ELSE was

\* connect() is called: device.gatt.connect() is pending
ConnectCall ==
    /\ connectPc = "idle"
    /\ op.name = "idle"
    /\ observers # {}
    /\ connectPc' = "gatt"
    /\ UNCHANGED <<codecVars, scenarioVars, transportVars, deviceVars, connectResult, op>>
    /\ Quiet

\* device.gatt.connect() resolves: the link is up, this.server is set
GattConnected ==
    /\ connectPc = "gatt"
    /\ linkUp' = TRUE
    /\ server' = "gatt"
    /\ isConnected' = ConnectedAfterGatt(variant, isConnected)
    /\ connectPc' = ServiceOrder(variant)[1]
    /\ UNCHANGED <<codecVars, scenarioVars, deviceCaps, notifying, late, listeners, rawListeners,
                   faults, variant, deviceInfo, services, observers, monitorVars,
                   connectResult, op>>
    /\ Quiet

\* device.gatt.connect() rejects: the peripheral cannot be reached
GattConnectFailed ==
    /\ connectPc = "gatt"
    /\ ~linkUp
    /\ connectPc' = "idle"
    /\ connectResult' = "error"
    /\ isConnected' = ConnectedAfterThrow(variant, isConnected)
    /\ UNCHANGED <<codecVars, scenarioVars, transportVars, variant, deviceInfo, server, services,
                   observers, monitorVars, op>>
    /\ Quiet

\* what follows service s in getServices: the next service, or the reads
AfterService(v, s) ==
    LET order == ServiceOrder(v)
        i == CHOOSE j \in 1..Len(order) : order[j] = s
    IN IF i < Len(order) THEN order[i + 1] ELSE "info"

\* this.server.getPrimaryService(s) settles
GetPrimaryService ==
    /\ connectPc \in ServiceNames
    /\ IF server # "null" /\ linkUp /\ connectPc \in deviceCaps
       THEN /\ services' = [services EXCEPT ![connectPc] = "live"]
            /\ connectPc' = AfterService(variant, connectPc)
            /\ UNCHANGED <<connectResult, isConnected>>
       ELSE /\ connectPc' = "idle"
            /\ connectResult' = "error"
            /\ isConnected' = ConnectedAfterThrow(variant, isConnected)
            /\ UNCHANGED services
    /\ UNCHANGED <<codecVars, scenarioVars, transportVars, variant, deviceInfo, server, observers,
                   monitorVars, op>>
    /\ Quiet

\* seeded fault: readDeviceInformation stops storing at the first failure
InfoAfterReadAbort(v, was, failed) ==
    IF failed = {} THEN [f \in InfoFields |-> "text"] ELSE was

\* this.deviceInfo after the reads, of which those of failed rejected: a
\* read that resolves stores its text; device.js and the monitor skip the
\* assignment of a field whose read rejected, readStringCharacteristic of
\* the CSAFE source returns null for it, which is assigned
InfoAfterRead(v, was, failed) ==
    [f \in InfoFields |->
        IF f \notin failed THEN "text"
        ELSE IF v = "csafe" THEN "null" ELSE was[f]]

\* the reads that reject while the information service is reachable: none,
\* one in the middle of the batch, or the last one
InfoFailures == {{}, {"serialNumber"}, {"connectedMachineType"}}

\* the information service object is there and its link is up
InfoReadable == linkUp /\ services["information"] = "live"

\* readDeviceInformation() has settled (every read is best effort) and
\* connect() returns
ReadDeviceInformation ==
    /\ connectPc = "info"
    /\ \E failed \in InfoFailures \cup {InfoFields} :
          /\ IF InfoReadable
             THEN failed \in InfoFailures /\ (failed # {} => faults < MaxFaults)
             ELSE failed = InfoFields
          /\ faults' = IF InfoReadable /\ failed # {} THEN faults + 1
                       ELSE faults
          /\ deviceInfo' = InfoAfterRead(variant, deviceInfo, failed)
          /\ infoFailed' = failed
    /\ lastNotif' = NoNotif
    /\ linkDrops' = 0
    /\ disconnectedCalls' = 0
    /\ teardown' = NoTeardown
    /\ connectPc' = "idle"
    /\ connectResult' = "ok"
    /\ isConnected' = ConnectedAtEnd(variant, isConnected)
    /\ UNCHANGED <<codecVars, scenarioVars, deviceCaps, linkUp, notifying, late, listeners,
                   rawListeners, variant, server, services, observers,
                   monitorVars, op>>
    /\ opResult' = NoOp

(***************************************************************************)
(* The gattserverdisconnected event and disconnect()                       *)
(***************************************************************************)
\* seeded fault: handleDisconnected calls the observer twice
OnDisconnectedCallsTwice(obs) == IF "onDisconnected" \in obs THEN 2 ELSE 0

\* onDisconnected invocations made by one run of handleDisconnected
OnDisconnectedCalls(obs) == IF "onDisconnected" \in obs THEN 1 ELSE 0

\* this.server after handleDisconnected
ServerAfterDisconnect(v, was) == IF v = "csafe" THEN was ELSE "null"

\* this.services after handleDisconnected: device and monitor replace the
\* object by {}; csafe keeps the service objects, which are dead by then
ServicesAfterDisconnect(v, was) ==
    IF v = "csafe"
    THEN [s \in ServiceNames |-> IF was[s] = "unset" THEN "unset" ELSE "stale"]
    ELSE [s \in ServiceNames |-> "unset"]

\* this.notifyCapableCharacteristics after handleDisconnected: the list is
\* kept, its characteristic objects are dead
DiscoveredAfterDisconnect(was) == IF was = "none" THEN "none" ELSE "stale"

\* this.activeCharacteristicSubscription after handleDisconnected: the
\* record is kept, its characteristic object is dead
ActiveAfterDisconnect(was) == [was EXCEPT !.live = FALSE]

\* the characteristics disconnect() requests stopNotifications() on before
\* it calls this.server.disconnect(): it requests none
DisconnectStops(on) == {}

\* onDisconnected invocations made by the handleDisconnected of the
\* replaced PM5Device objects: the constructor's listener is never removed
\* from the device, and each of them still holds its callback
RetiredCalls(n) == n

\* the link goes down and the stack dispatches gattserverdisconnected, which
\* runs handleDisconnected; the characteristic objects of the link are dead
LinkDown(by) ==
    /\ teardown' = IF by = "disconnect"
                   THEN [by |-> by, wasUp |-> linkUp, was |-> notifying,
                         stops |-> DisconnectStops(notifying)]
                   ELSE [by |-> by, wasUp |-> linkUp, was |-> {}, stops |-> {}]
    /\ infoFailed' = {}
    /\ linkUp' = FALSE
    /\ notifying' = {}
    /\ late' = {}
    /\ listeners' = [c \in Chars |-> 0]
    /\ rawListeners' = [c \in Chars |-> 0]
    /\ discovered' = DiscoveredAfterDisconnect(discovered)
    /\ activeSub' = ActiveAfterDisconnect(activeSub)
    /\ isConnected' = FALSE
    /\ server' = ServerAfterDisconnect(variant, server)
    /\ services' = ServicesAfterDisconnect(variant, services)
    /\ linkDrops' = 1
    /\ disconnectedCalls' = OnDisconnectedCalls(observers) + RetiredCalls(retired)
    /\ opResult' = NoOp
    /\ lastNotif' = NoNotif
    /\ UNCHANGED <<codecVars, scenarioVars, deviceCaps, faults, variant, deviceInfo, observers, asyncVars>>

\* an unsolicited link loss
LinkLost ==
    /\ linkUp
    /\ LinkDown("loss")

\* whether disconnect() calls this.server.disconnect()
DisconnectGuard(v) ==
    IF v = "csafe" THEN server # "null" /\ isConnected
    ELSE server # "null" /\ linkUp

\* disconnect(): this.server.disconnect() takes the link down if the guard
\* lets it be called and the link is up; otherwise the call does nothing
Disconnect ==
    \/ /\ DisconnectGuard(variant)
       /\ linkUp
       /\ LinkDown("disconnect")
    \/ /\ ~(DisconnectGuard(variant) /\ linkUp)
       /\ teardown' = [by |-> "disconnect", wasUp |-> linkUp,
                       was |-> notifying,
                       stops |-> DisconnectStops(notifying)]
       /\ opResult' = NoOp
       /\ lastNotif' = NoNotif
       /\ linkDrops' = 0
       /\ disconnectedCalls' = 0
       /\ infoFailed' = {}
       /\ UNCHANGED <<codecVars, scenarioVars, transportVars, deviceVars, asyncVars>>

\* the callback properties of the rowing records
RowingObservers == {"onWorkoutData", "onStrokeData", "onSplitData"}

\* the consumer assigns one callback property of the rowing records at any
\* moment of the session
AttachObserver ==
    /\ \E o \in RowingObservers \ observers : observers' = observers \cup {o}
    /\ UNCHANGED <<codecVars, scenarioVars, transportVars, variant, deviceInfo,
                   server, services, isConnected, monitorVars, asyncVars>>
    /\ Quiet

(***************************************************************************)
(* PM5Demo.handleConnect after a disconnect: the consumer constructs a new *)
(* PM5Device on the BluetoothDevice object it used before and assigns its  *)
(* callbacks to it.                                                        *)
(***************************************************************************)
\* most PM5Device objects the consumer replaces in one behaviour
MaxRetired == 1

\* new PM5Device(bluetoothDevice) and the assignment of the callbacks; the
\* object replaced counts as retired if it had an onDisconnected callback
ReplaceDevice ==
    /\ ~linkUp
    /\ op.name = "idle"
    /\ connectPc = "idle"
    /\ connectResult # "none"
    /\ retired < MaxRetired
    /\ retired' = retired + OnDisconnectedCalls(observers)
    /\ server' = "null"
    /\ services' = [s \in ServiceNames |-> "unset"]
    /\ isConnected' = FALSE
    /\ deviceInfo' = [f \in InfoFields |-> "null"]
    /\ observers' = AllObservers
    /\ discovered' = "none"
    /\ activeSub' = NoSub
    /\ connectResult' = "none"
    /\ UNCHANGED <<codecVars, inflight, transportVars, variant, connectPc, op>>
    /\ Quiet

(***************************************************************************)
(* startRowingDataNotifications() and stopRowingDataNotifications()        *)
(***************************************************************************)
\* the session is not Ready: no connect() has succeeded on the present link
NotReady == connectPc = "idle" /\ ~(linkUp /\ connectResult = "ok")

\* a GATT request on the rowing service object can succeed
RowingUsable == services["rowing"] = "live" /\ linkUp

\* startRowingDataNotifications() is called; this.services.rowing is read at
\* once and throws a TypeError when it is undefined
StartRowingCall ==
    /\ op.name = "idle"
    /\ connectPc = "idle"
    /\ \A c \in Chars : listeners[c] < MaxListeners
    /\ LET o == [name |-> "start", k |-> 1, cold |-> NotReady,
                 attached |-> FALSE, uuid |-> "none"]
       IN IF services["rowing"] = "unset"
          THEN op' = Idle /\ opResult' = Settled(o, "error")
          ELSE op' = o /\ opResult' = NoOp
    /\ UNCHANGED <<codecVars, scenarioVars, transportVars, deviceVars, connectPc,
                   connectResult>>
    /\ NoEvents

\* where startRowingDataNotifications goes after dedicated stream k
AfterStart(v, k) ==
    IF k < Len(DedicatedChars) THEN k + 1
    ELSE IF v = "csafe" THEN k + 1 ELSE 0

\* the listener is added after startNotifications() has resolved
ListenersAfterStart(ls, c) == [ls EXCEPT ![c] = @ + 1]

\* getCharacteristic + startNotifications of dedicated stream k resolve, and
\* the listener is added
StartStream ==
    /\ op.name = "start"
    /\ op.k \in 1..Len(DedicatedChars)
    /\ RowingUsable
    /\ LET c == DedicatedChars[op.k]
           next == AfterStart(variant, op.k)
           o == [op EXCEPT !.attached = TRUE, !.k = next]
       IN /\ notifying' = notifying \cup {c}
          /\ late' = late \ {c}
          /\ listeners' = ListenersAfterStart(listeners, c)
          /\ IF next = 0
             THEN op' = Idle /\ opResult' = Settled(o, "ok")
             ELSE op' = o /\ opResult' = NoOp
    /\ UNCHANGED <<codecVars, scenarioVars, deviceCaps, linkUp, rawListeners, faults,
                   deviceVars, connectPc, connectResult>>
    /\ NoEvents

\* seeded fault: a failed start rolls back the streams it had started
StartStreamFailedRollback ==
    /\ op.name = "start"
    /\ op.k \in 1..Len(DedicatedChars)
    /\ \/ ~RowingUsable /\ UNCHANGED faults
       \/ RowingUsable /\ faults < MaxFaults /\ faults' = faults + 1
    /\ op' = Idle
    /\ opResult' = Settled(op, "error")
    /\ notifying' = notifying \ {DedicatedChars[j] : j \in 1..(op.k - 1)}
    /\ listeners' = [c \in Chars |->
                        IF \E j \in 1..(op.k - 1) : DedicatedChars[j] = c
                        THEN 0 ELSE listeners[c]]
    /\ UNCHANGED <<codecVars, scenarioVars, deviceCaps, linkUp, late,
                   rawListeners, deviceVars, connectPc, connectResult>>
    /\ NoEvents

\* getCharacteristic or startNotifications of dedicated stream k rejects: the
\* link or the service object is dead, or the stack fails the request
StartStreamFailed ==
    /\ op.name = "start"
    /\ op.k \in 1..Len(DedicatedChars)
    /\ \/ ~RowingUsable /\ UNCHANGED faults
       \/ RowingUsable /\ faults < MaxFaults /\ faults' = faults + 1
    /\ op' = Idle
    /\ opResult' = Settled(op, "error")
    /\ UNCHANGED <<codecVars, scenarioVars, deviceCaps, linkUp, notifying, late, listeners,
                   rawListeners, deviceVars, connectPc, connectResult>>
    /\ NoEvents

\* seeded fault: the multiplexed stream is started outside the inner try, so
\* that its absence rejects startRowingDataNotifications
StartMultiplexedFatal ==
    /\ op.name = "start"
    /\ op.k = Len(DedicatedChars) + 1
    /\ \/ /\ RowingUsable /\ "multiplexed" \in deviceCaps
          /\ notifying' = notifying \cup {"multiplexed"}
          /\ late' = late \ {"multiplexed"}
          /\ listeners' = ListenersAfterStart(listeners, "multiplexed")
          /\ opResult' = Settled(op, "ok")
       \/ /\ ~(RowingUsable /\ "multiplexed" \in deviceCaps)
          /\ UNCHANGED <<notifying, late, listeners>>
          /\ opResult' = Settled(op, "error")
    /\ op' = Idle
    /\ UNCHANGED <<codecVars, scenarioVars, deviceCaps, linkUp, rawListeners, faults,
                   deviceVars, connectPc, connectResult>>
    /\ NoEvents

\* csafe: the optional multiplexed stream, whose failure is swallowed
StartMultiplexed ==
    /\ op.name = "start"
    /\ op.k = Len(DedicatedChars) + 1
    /\ \/ /\ RowingUsable /\ "multiplexed" \in deviceCaps
          /\ notifying' = notifying \cup {"multiplexed"}
          /\ late' = late \ {"multiplexed"}
          /\ listeners' = ListenersAfterStart(listeners, "multiplexed")
       \/ /\ ~(RowingUsable /\ "multiplexed" \in deviceCaps)
          /\ UNCHANGED <<notifying, late, listeners>>
    /\ op' = Idle
    /\ opResult' = Settled(op, "ok")
    /\ UNCHANGED <<codecVars, scenarioVars, deviceCaps, linkUp, rawListeners, faults,
                   deviceVars, connectPc, connectResult>>
    /\ NoEvents

\* stopRowingDataNotifications() is called
StopRowingCall ==
    /\ op.name = "idle"
    /\ connectPc = "idle"
    /\ op' = [name |-> "stop", k |-> 1, cold |-> NotReady, attached |-> FALSE,
              uuid |-> "none"]
    /\ UNCHANGED <<codecVars, scenarioVars, transportVars, deviceVars, connectPc,
                   connectResult>>
    /\ Quiet

\* stopNotifications() has resolved for c: a notification sent while c was
\* still switched on may yet be dispatched
LateAfterStop(was, on, c) == IF c \in on THEN was \cup {c} ELSE was

\* the listeners stopRowingDataNotifications leaves on characteristic c
ListenersAfterStop(ls, c) == ls

\* seeded fault: the loop has no try / catch of its own, so that the first
\* failing turn rejects stopRowingDataNotifications
StopStreamRejecting ==
    /\ op.name = "stop"
    /\ LET order == StopOrder(variant)
           c == order[op.k]
           usable == RowingUsable /\ (c = "multiplexed" => c \in deviceCaps)
       IN \/ /\ usable
             /\ notifying' = notifying \ {c}
             /\ late' = LateAfterStop(late, notifying, c)
             /\ listeners' = ListenersAfterStop(listeners, c)
             /\ UNCHANGED faults
             /\ IF op.k < Len(order)
                THEN op' = [op EXCEPT !.k = @ + 1] /\ opResult' = NoOp
                ELSE op' = Idle /\ opResult' = Settled(op, "ok")
          \/ /\ ~usable
             /\ UNCHANGED <<notifying, late, listeners, faults>>
             /\ op' = Idle /\ opResult' = Settled(op, "error")
          \/ /\ usable /\ faults < MaxFaults
             /\ faults' = faults + 1
             /\ UNCHANGED <<notifying, late, listeners>>
             /\ op' = Idle /\ opResult' = Settled(op, "error")
    /\ UNCHANGED <<codecVars, scenarioVars, deviceCaps, linkUp, rawListeners,
                   deviceVars, connectPc, connectResult>>
    /\ NoEvents

\* one turn of the loop of stopRowingDataNotifications: stopNotifications()
\* resolves, or the turn's own catch swallows the failure
StopStream ==
    /\ op.name = "stop"
    /\ LET order == StopOrder(variant)
           c == order[op.k]
           usable == RowingUsable /\ (c = "multiplexed" => c \in deviceCaps)
       IN /\ \/ /\ usable
                /\ notifying' = notifying \ {c}
                /\ late' = LateAfterStop(late, notifying, c)
                /\ listeners' = ListenersAfterStop(listeners, c)
                /\ UNCHANGED faults
             \/ /\ ~usable
                /\ UNCHANGED <<notifying, late, listeners, faults>>
             \/ /\ usable /\ faults < MaxFaults
                /\ faults' = faults + 1
                /\ UNCHANGED <<notifying, late, listeners>>
          /\ IF op.k < Len(order)
             THEN op' = [op EXCEPT !.k = @ + 1] /\ opResult' = NoOp
             ELSE op' = Idle /\ opResult' = Settled(op, "ok")
    /\ UNCHANGED <<codecVars, scenarioVars, deviceCaps, linkUp, rawListeners, deviceVars,
                   connectPc, connectResult>>
    /\ NoEvents

(***************************************************************************)
(* monitor: the RX control characteristic                                  *)
(***************************************************************************)
ControlUsable == services["control"] = "live" /\ linkUp

\* startControlRxNotifications() is called; this.services.control is read at
\* once and throws a TypeError when it is undefined
StartControlRxCall ==
    /\ variant = "monitor"
    /\ op.name = "idle"
    /\ connectPc = "idle"
    /\ listeners["control_rx"] < MaxListeners
    /\ LET o == [name |-> "startRx", k |-> 1, cold |-> NotReady,
                 attached |-> FALSE, uuid |-> "none"]
       IN IF services["control"] = "unset"
          THEN op' = Idle /\ opResult' = Settled(o, "error")
          ELSE op' = o /\ opResult' = NoOp
    /\ UNCHANGED <<codecVars, scenarioVars, transportVars, deviceVars, connectPc,
                   connectResult>>
    /\ NoEvents

\* getCharacteristic + startNotifications of the RX characteristic resolve and
\* the listener is added, or one of them rejects
StartControlRxDone ==
    /\ op.name = "startRx"
    /\ \/ /\ ControlUsable
          /\ notifying' = notifying \cup {"control_rx"}
          /\ late' = late \ {"control_rx"}
          /\ listeners' = ListenersAfterStart(listeners, "control_rx")
          /\ opResult' = Settled([op EXCEPT !.attached = TRUE], "ok")
          /\ UNCHANGED faults
       \/ /\ ~ControlUsable
          /\ opResult' = Settled(op, "error")
          /\ UNCHANGED <<notifying, late, listeners, faults>>
       \/ /\ ControlUsable /\ faults < MaxFaults
          /\ faults' = faults + 1
          /\ opResult' = Settled(op, "error")
          /\ UNCHANGED <<notifying, late, listeners>>
    /\ op' = Idle
    /\ UNCHANGED <<codecVars, scenarioVars, deviceCaps, linkUp, rawListeners, deviceVars,
                   connectPc, connectResult>>
    /\ NoEvents

\* sendControlBytes(hexString) is called: a hex string with an odd number
\* of digits throws before anything is sent; this.services.control is read
\* at once and throws a TypeError when it is undefined
SendControlBytesCall ==
    /\ variant = "monitor"
    /\ op.name = "idle"
    /\ connectPc = "idle"
    /\ \E evenHex \in BOOLEAN :
         LET o == [name |-> "send", k |-> 1, cold |-> NotReady,
                   attached |-> FALSE, uuid |-> "none"]
         IN IF ~evenHex
            THEN op' = Idle /\ opResult' = Settled(o, "invalid")
            ELSE IF services["control"] = "unset"
            THEN op' = Idle /\ opResult' = Settled(o, "error")
            ELSE op' = o /\ opResult' = NoOp
    /\ UNCHANGED <<codecVars, scenarioVars, transportVars, deviceVars, connectPc,
                   connectResult>>
    /\ NoEvents

\* getCharacteristic + writeValue of the TX characteristic resolve, or one
\* of them rejects and the catch block logs and rethrows
SendControlBytesDone ==
    /\ op.name = "send"
    /\ \/ /\ ControlUsable
          /\ opResult' = Settled(op, "ok")
          /\ UNCHANGED faults
       \/ /\ ~ControlUsable
          /\ opResult' = Settled(op, "error")
          /\ UNCHANGED faults
       \/ /\ ControlUsable /\ faults < MaxFaults
          /\ faults' = faults + 1
          /\ opResult' = Settled(op, "error")
    /\ op' = Idle
    /\ UNCHANGED <<codecVars, scenarioVars, deviceCaps, linkUp, notifying, late, listeners,
                   rawListeners, deviceVars, connectPc, connectResult>>
    /\ NoEvents

\* stopControlRxNotifications() is called
StopControlRxCall ==
    /\ variant = "monitor"
    /\ op.name = "idle"
    /\ connectPc = "idle"
    /\ LET o == [name |-> "stopRx", k |-> 1, cold |-> NotReady,
                 attached |-> FALSE, uuid |-> "none"]
       IN IF services["control"] = "unset"
          THEN op' = Idle /\ opResult' = Settled(o, "error")
          ELSE op' = o /\ opResult' = NoOp
    /\ UNCHANGED <<codecVars, scenarioVars, transportVars, deviceVars, connectPc,
                   connectResult>>
    /\ NoEvents

\* stopNotifications of the RX characteristic resolves, or rejects and the
\* error is rethrown
StopControlRxDone ==
    /\ op.name = "stopRx"
    /\ \/ /\ ControlUsable
          /\ notifying' = notifying \ {"control_rx"}
          /\ late' = LateAfterStop(late, notifying, "control_rx")
          /\ opResult' = Settled(op, "ok")
          /\ UNCHANGED faults
       \/ /\ ~ControlUsable
          /\ opResult' = Settled(op, "error")
          /\ UNCHANGED <<notifying, late, faults>>
       \/ /\ ControlUsable /\ faults < MaxFaults
          /\ faults' = faults + 1
          /\ opResult' = Settled(op, "error")
          /\ UNCHANGED <<notifying, late>>
    /\ op' = Idle
    /\ UNCHANGED <<codecVars, scenarioVars, deviceCaps, linkUp, listeners, rawListeners,
                   deviceVars, connectPc, connectResult>>
    /\ NoEvents

(***************************************************************************)
(* monitor: the generic characteristic monitor                             *)
(***************************************************************************)
\* discoverNotifyCapableCharacteristics() is called; this.server is read at
\* once and throws a TypeError when it is null
DiscoverCall ==
    /\ variant = "monitor"
    /\ op.name = "idle"
    /\ connectPc = "idle"
    /\ LET o == [name |-> "discover", k |-> 1, cold |-> NotReady,
                 attached |-> FALSE, uuid |-> "none"]
       IN IF server = "null"
          THEN op' = Idle /\ opResult' = Settled(o, "error")
          ELSE op' = o /\ opResult' = NoOp
    /\ UNCHANGED <<codecVars, scenarioVars, transportVars, deviceVars, connectPc,
                   connectResult>>
    /\ NoEvents

\* getPrimaryServices() and the getCharacteristics() calls have settled
DiscoverDone ==
    /\ op.name = "discover"
    /\ IF linkUp
       THEN discovered' = "live" /\ opResult' = Settled(op, "ok")
       ELSE UNCHANGED discovered /\ opResult' = Settled(op, "error")
    /\ op' = Idle
    /\ UNCHANGED <<codecVars, scenarioVars, transportVars, variant, deviceInfo, server, services,
                   isConnected, observers, activeSub, connectPc, connectResult>>
    /\ NoEvents

\* the service a characteristic belongs to
ServiceOf(c) == IF c = "control_rx" THEN "control" ELSE "rowing"

\* notifyCapableCharacteristics.find(c => c.uuid === uuid) finds an entry
Listed(uuid) ==
    /\ discovered # "none"
    /\ uuid \in Chars
    /\ ServiceOf(uuid) \in deviceCaps

\* seeded fault: unsubscribeFromCharacteristic leaves its handler attached
RawAfterRemoveKept(raw, sub) == raw

\* removeEventListener(handler) on the characteristic of the subscription
RawAfterRemove(raw, sub) ==
    IF sub.attached /\ sub.live THEN [raw EXCEPT ![sub.uuid] = @ - 1] ELSE raw

SubAfterRemove(sub) == [sub EXCEPT !.attached = FALSE]

\* subscribeToCharacteristic(uuid) is called.  With an active subscription it
\* first runs unsubscribeFromCharacteristic up to its await; without one it
\* looks the uuid up and calls startNotifications
SubscribeCall(uuid) ==
    /\ variant = "monitor"
    /\ op.name = "idle"
    /\ connectPc = "idle"
    /\ \A c \in Chars : rawListeners[c] < MaxListeners
    /\ LET o == [name |-> "subscribe", k |-> 1, cold |-> NotReady,
                 attached |-> FALSE, uuid |-> uuid]
       IN IF activeSub # NoSub
          THEN /\ rawListeners' = RawAfterRemove(rawListeners, activeSub)
               /\ activeSub' = SubAfterRemove(activeSub)
               /\ op' = o
               /\ opResult' = NoOp
          ELSE /\ UNCHANGED <<rawListeners, activeSub>>
               /\ IF Listed(uuid)
                  THEN op' = [o EXCEPT !.k = 2] /\ opResult' = NoOp
                  ELSE op' = Idle /\ opResult' = Settled(o, "error")
    /\ UNCHANGED <<codecVars, scenarioVars, deviceCaps, linkUp, notifying, late, listeners,
                   faults, variant, deviceInfo, server, services, isConnected, observers,
                   discovered, connectPc, connectResult>>
    /\ NoEvents

\* the stopNotifications() of the subscription being replaced settles
SubscribeUnsubDone ==
    /\ op.name = "subscribe"
    /\ op.k = 1
    /\ LET usable == activeSub.live /\ linkUp IN
       \/ /\ usable
          /\ notifying' = notifying \ {activeSub.uuid}
          /\ late' = LateAfterStop(late, notifying, activeSub.uuid)
          /\ activeSub' = NoSub
          /\ IF Listed(op.uuid)
             THEN op' = [op EXCEPT !.k = 2] /\ opResult' = NoOp
             ELSE op' = Idle /\ opResult' = Settled(op, "error")
          /\ UNCHANGED faults
       \/ /\ ~usable
          /\ op' = Idle /\ opResult' = Settled(op, "error")
          /\ UNCHANGED <<notifying, late, activeSub, faults>>
       \/ /\ usable /\ faults < MaxFaults
          /\ faults' = faults + 1
          /\ op' = Idle /\ opResult' = Settled(op, "error")
          /\ UNCHANGED <<notifying, late, activeSub>>
    /\ UNCHANGED <<codecVars, scenarioVars, deviceCaps, linkUp, listeners, rawListeners,
                   variant, deviceInfo, server, services, isConnected, observers,
                   discovered, connectPc, connectResult>>
    /\ NoEvents

\* the listener the generic monitor adds after startNotifications()
RawAfterSubscribe(raw, uuid) == [raw EXCEPT ![uuid] = @ + 1]

\* startNotifications() of the looked-up characteristic settles; on success
\* the handler is added and the subscription is recorded
SubscribeStartDone ==
    /\ op.name = "subscribe"
    /\ op.k = 2
    /\ LET usable == discovered = "live" /\ linkUp IN
       \/ /\ usable
          /\ notifying' = notifying \cup {op.uuid}
          /\ late' = late \ {op.uuid}
          /\ rawListeners' = RawAfterSubscribe(rawListeners, op.uuid)
          /\ activeSub' = [uuid |-> op.uuid, live |-> TRUE, attached |-> TRUE]
          /\ opResult' = Settled([op EXCEPT !.attached = TRUE], "ok")
          /\ UNCHANGED faults
       \/ /\ ~usable
          /\ opResult' = Settled(op, "error")
          /\ UNCHANGED <<notifying, late, rawListeners, activeSub, faults>>
       \/ /\ usable /\ faults < MaxFaults
          /\ faults' = faults + 1
          /\ opResult' = Settled(op, "error")
          /\ UNCHANGED <<notifying, late, rawListeners, activeSub>>
    /\ op' = Idle
    /\ UNCHANGED <<codecVars, scenarioVars, deviceCaps, linkUp, listeners, variant, deviceInfo, server,
                   services, isConnected, observers, discovered, connectPc,
                   connectResult>>
    /\ NoEvents

\* unsubscribeFromCharacteristic() is called: it returns at once without a
\* subscription, else removes the handler and calls stopNotifications
UnsubscribeCall ==
    /\ variant = "monitor"
    /\ op.name = "idle"
    /\ connectPc = "idle"
    /\ LET o == [name |-> "unsubscribe", k |-> 1, cold |-> NotReady,
                 attached |-> FALSE, uuid |-> activeSub.uuid]
       IN IF activeSub = NoSub
          THEN /\ op' = Idle /\ opResult' = Settled(o, "ok")
               /\ UNCHANGED <<rawListeners, activeSub>>
          ELSE /\ rawListeners' = RawAfterRemove(rawListeners, activeSub)
               /\ activeSub' = SubAfterRemove(activeSub)
               /\ op' = o
               /\ opResult' = NoOp
    /\ UNCHANGED <<codecVars, scenarioVars, deviceCaps, linkUp, notifying, late, listeners,
                   faults, variant, deviceInfo, server, services, isConnected, observers,
                   discovered, connectPc, connectResult>>
    /\ NoEvents

\* stopNotifications() of the subscription settles; on success the record is
\* cleared, on failure the error is rethrown
UnsubscribeDone ==
    /\ op.name = "unsubscribe"
    /\ LET usable == activeSub.live /\ linkUp IN
       \/ /\ usable
          /\ notifying' = notifying \ {activeSub.uuid}
          /\ late' = LateAfterStop(late, notifying, activeSub.uuid)
          /\ activeSub' = NoSub
          /\ opResult' = Settled(op, "ok")
          /\ UNCHANGED faults
       \/ /\ ~usable
          /\ opResult' = Settled(op, "error")
          /\ UNCHANGED <<notifying, late, activeSub, faults>>
       \/ /\ usable /\ faults < MaxFaults
          /\ faults' = faults + 1
          /\ opResult' = Settled(op, "error")
          /\ UNCHANGED <<notifying, late, activeSub>>
    /\ op' = Idle
    /\ UNCHANGED <<codecVars, scenarioVars, deviceCaps, linkUp, listeners, rawListeners,
                   variant, deviceInfo, server, services, isConnected, observers,
                   discovered, connectPc, connectResult>>
    /\ NoEvents

Subscribe == \E uuid \in MonitorUuids : SubscribeCall(uuid)

(***************************************************************************)
(* monitor: subscribeToCharacteristic invocations that overlap.  Each      *)
(* invocation runs from its call to its first await in one step and from   *)
(* one await to the next in one step; what it destructured before an await *)
(* is kept with the invocation.                                            *)
(***************************************************************************)
NoneInFlight == \A i \in Invocations : inflight[i].pc = "idle"

\* what an invocation of subscribeToCharacteristic reports when it settles
SubscribeSettled(inv, result, attached) ==
    [name |-> "subscribe", cold |-> inv.cold, result |-> result,
     attached |-> attached, uuid |-> inv.uuid]

\* the lookup of the uuid and the call of startNotifications(), or the Error
\* thrown when the uuid is not in notifyCapableCharacteristics
FindAndStart(i, inv) ==
    IF Listed(inv.uuid)
    THEN /\ inflight' = [inflight EXCEPT ![i] = [inv EXCEPT !.pc = "start"]]
         /\ opResult' = NoOp
    ELSE /\ inflight' = [inflight EXCEPT ![i] = NotRunning]
         /\ opResult' = SubscribeSettled(inv, "error", FALSE)

\* invocation i of subscribeToCharacteristic(uuid) is called, possibly while
\* the other invocation is suspended
OverlapSubscribeCall(i, uuid) ==
    /\ variant = "monitor"
    /\ op.name = "idle"
    /\ connectPc = "idle"
    /\ inflight[i].pc = "idle"
    /\ \A c \in Chars : rawListeners[c] < MaxListeners
    /\ LET inv == [pc |-> "stop", uuid |-> uuid, was |-> activeSub,
                   cold |-> NotReady]
       IN IF activeSub # NoSub
          THEN /\ rawListeners' = RawAfterRemove(rawListeners, activeSub)
               /\ activeSub' = SubAfterRemove(activeSub)
               /\ inflight' = [inflight EXCEPT ![i] = inv]
               /\ opResult' = NoOp
          ELSE /\ UNCHANGED <<rawListeners, activeSub>>
               /\ FindAndStart(i, inv)
    /\ UNCHANGED <<codecVars, retired, deviceCaps, linkUp, notifying, late,
                   listeners, faults, variant, deviceInfo, server, services,
                   isConnected, observers, discovered, asyncVars>>
    /\ NoEvents

OverlapSubscribe ==
    \E i \in Invocations : \E uuid \in MonitorUuids : OverlapSubscribeCall(i, uuid)

\* the stopNotifications() that invocation i awaits inside
\* unsubscribeFromCharacteristic settles: on success the subscription
\* record is set to null, whatever it holds by then, and the invocation goes
\* on to look its uuid up
OverlapStopSettled(i) ==
    /\ inflight[i].pc = "stop"
    /\ LET inv == inflight[i]
           usable == inv.was.live /\ linkUp
       IN \/ /\ usable
             /\ notifying' = notifying \ {inv.was.uuid}
             /\ late' = LateAfterStop(late, notifying, inv.was.uuid)
             /\ activeSub' = NoSub
             /\ FindAndStart(i, inv)
             /\ UNCHANGED faults
          \/ /\ ~usable
             /\ inflight' = [inflight EXCEPT ![i] = NotRunning]
             /\ opResult' = SubscribeSettled(inv, "error", FALSE)
             /\ UNCHANGED <<notifying, late, activeSub, faults>>
          \/ /\ usable /\ faults < MaxFaults
             /\ faults' = faults + 1
             /\ inflight' = [inflight EXCEPT ![i] = NotRunning]
             /\ opResult' = SubscribeSettled(inv, "error", FALSE)
             /\ UNCHANGED <<notifying, late, activeSub>>
    /\ UNCHANGED <<codecVars, retired, deviceCaps, linkUp, listeners,
                   rawListeners, variant, deviceInfo, server, services,
                   isConnected, observers, discovered, asyncVars>>
    /\ NoEvents

\* the startNotifications() invocation i awaits settles: on success it adds
\* its handler and records its subscription over whatever is recorded
OverlapStartSettled(i) ==
    /\ inflight[i].pc = "start"
    /\ LET inv == inflight[i]
           usable == discovered = "live" /\ linkUp
       IN \/ /\ usable
             /\ notifying' = notifying \cup {inv.uuid}
             /\ late' = late \ {inv.uuid}
             /\ rawListeners' = RawAfterSubscribe(rawListeners, inv.uuid)
             /\ activeSub' = [uuid |-> inv.uuid, live |-> TRUE, attached |-> TRUE]
             /\ opResult' = SubscribeSettled(inv, "ok", TRUE)
             /\ UNCHANGED faults
          \/ /\ ~usable
             /\ opResult' = SubscribeSettled(inv, "error", FALSE)
             /\ UNCHANGED <<notifying, late, rawListeners, activeSub, faults>>
          \/ /\ usable /\ faults < MaxFaults
             /\ faults' = faults + 1
             /\ opResult' = SubscribeSettled(inv, "error", FALSE)
             /\ UNCHANGED <<notifying, late, rawListeners, activeSub>>
    /\ inflight' = [inflight EXCEPT ![i] = NotRunning]
    /\ UNCHANGED <<codecVars, retired, deviceCaps, linkUp, listeners, variant,
                   deviceInfo, server, services, isConnected, observers,
                   discovered, asyncVars>>
    /\ NoEvents

OverlapSettled ==
    \E i \in Invocations : OverlapStopSettled(i) \/ OverlapStartSettled(i)

\* the calls the consumer makes one at a time, with no invocation in flight
ConnectAlone == NoneInFlight /\ ConnectCall
DiscoverAlone == NoneInFlight /\ DiscoverCall
UnsubscribeAlone == NoneInFlight /\ UnsubscribeCall

(***************************************************************************)
(* Notifications                                                           *)
(***************************************************************************)
\* the payloads of the notifications: a full-length frame for every tag the
\* multiplexed stream knows and for one it does not, and a truncated frame
NotifyTags == {49, 50, 53, 55, 153}
ShortFrame == MkFrame(AdditionalStatusLen - 1, 0, 0, 49)
NotifyFrames(c) ==
    IF c = "multiplexed"
    THEN { MkFrame(StrokeDataLen + 1, 0, 0, tag) : tag \in NotifyTags }
         \cup {ShortFrame}
    ELSE { MkFrame(StrokeDataLen, 0, 0, 49), ShortFrame }

\* the observer property a record type is handed to
ObserverOf(type) ==
    CASE type \in {"general_status", "additional_status"} -> "onWorkoutData"
      [] type = "stroke_data" -> "onStrokeData"
      [] type = "split_data" -> "onSplitData"

\* seeded fault: the listener calls the callback property without testing it
DedicatedHandlerUnguarded(c, f, obs) ==
    IF parse(c, f, FALSE).ok THEN 1 ELSE 0

\* observer invocations one listener of a dedicated characteristic makes
DedicatedHandler(c, f, obs) ==
    IF parse(c, f, FALSE).ok /\ ObserverOf(c) \in obs THEN 1 ELSE 0

\* observer invocations one run of handleMultiplexedDataUpdate makes
handleMultiplexedDataUpdate(f, obs) ==
    LET parsedData == parseMultiplexedData(f) IN
    IF ~parsedData.ok THEN 0
    ELSE IF parsedData.type = "general_status" /\ "onWorkoutData" \in obs THEN 1
    ELSE IF parsedData.type = "stroke_data" /\ "onStrokeData" \in obs THEN 1
    ELSE 0

\* onWorkoutData / onStrokeData / onSplitData invocations one listener of
\* rowing characteristic c makes for frame f
HandlerCalls(c, f, obs) ==
    IF c = "control_rx" THEN 0
    ELSE IF c = "multiplexed" THEN handleMultiplexedDataUpdate(f, obs)
    ELSE DedicatedHandler(c, f, obs)

\* onControlRxData invocations one listener of the RX characteristic makes
RxHandlerCalls(c, obs) ==
    IF c = "control_rx" /\ "onControlRxData" \in obs THEN 1 ELSE 0

\* onCharacteristicData invocations one listener of the generic monitor makes
RawHandlerCalls(obs) == IF "onCharacteristicData" \in obs THEN 1 ELSE 0

\* the record type a listener of characteristic c decodes frame f to
DecodedType(c, f) ==
    IF c = "control_rx" THEN "raw"
    ELSE IF c = "multiplexed"
    THEN (IF parseMultiplexedData(f).ok THEN parseMultiplexedData(f).type
          ELSE "none")
    ELSE (IF parse(c, f, FALSE).ok THEN c ELSE "none")

\* the observer property one listener of characteristic c invokes for f
ObserverInvoked(c, f, obs) ==
    LET type == DecodedType(c, f)
        o == IF c = "control_rx" THEN "onControlRxData"
             ELSE IF c = "multiplexed"
             THEN (IF type = "general_status" THEN "onWorkoutData"
                   ELSE IF type = "stroke_data" THEN "onStrokeData"
                   ELSE "none")
             ELSE IF type = "none" THEN "none"
             ELSE ObserverOf(type)
    IN IF o \in obs THEN o ELSE "none"

\* parse-error events one listener hands to the consumer for frame f: the
\* catch block of the listener only writes to the console
ParseErrorEvents(c, f) == 0

\* seeded fault: the listener has no try / catch around the decoder
EscapesUncaught(c, f) ==
    IF c = "control_rx" THEN FALSE
    ELSE IF c = "multiplexed" THEN ~parseMultiplexedData(f).ok
    ELSE ~parse(c, f, FALSE).ok

\* an exception leaves the listener: the body of every listener is one
\* try block whose catch logs the error
Escapes(c, f) == FALSE

\* the payload is one the listeners of characteristic c can decode
WellFormed(c, f) ==
    IF c = "control_rx" THEN TRUE
    ELSE IF c = "multiplexed" THEN parseMultiplexedData(f).ok
    ELSE parse(c, f, FALSE).ok

\* seeded fault: the listener calls the callback after its try / catch
CallbackEscapesUncaught(throws) == throws

\* an exception thrown by the consumer's callback leaves the listener: the
\* callback is called inside the try block of the listener, whose catch logs
CallbackEscapes(throws) == FALSE

\* the stack dispatches characteristicvaluechanged on characteristic c, and
\* every listener on it runs; throws tells whether the consumer's callback
\* throws when it is invoked
Dispatch(c, f, throws) ==
    /\ linkUp
    /\ c \in notifying \cup late
    /\ throws => (listeners[c] > 0 /\ ObserverInvoked(c, f, observers) # "none")
    /\ lastNotif' = [char |-> c,
                     threw |-> throws,
                     wellFormed |-> WellFormed(c, f),
                     type |-> DecodedType(c, f),
                     observer |-> IF listeners[c] > 0
                                  THEN ObserverInvoked(c, f, observers)
                                  ELSE "none",
                     errors |-> listeners[c] * ParseErrorEvents(c, f),
                     escaped |-> \/ listeners[c] > 0 /\ Escapes(c, f)
                                 \/ CallbackEscapes(throws),
                     data |-> listeners[c] * HandlerCalls(c, f, observers),
                     rx |-> listeners[c] * RxHandlerCalls(c, observers),
                     raw |-> rawListeners[c] * RawHandlerCalls(observers)]
    /\ linkDrops' = 0
    /\ disconnectedCalls' = 0
    /\ teardown' = NoTeardown
    /\ infoFailed' = {}
    /\ UNCHANGED <<codecVars, scenarioVars, transportVars, deviceVars, asyncVars, opResult>>

Notify(c, f) == Dispatch(c, f, FALSE)

Notification ==
    \E c \in notifying \cup late : \E f \in NotifyFrames(c) : Notify(c, f)

\* a notification whose record the consumer's callback answers by throwing
NotificationCallbackThrows ==
    \E c \in notifying \cup late : \E f \in NotifyFrames(c) : Dispatch(c, f, TRUE)

(***************************************************************************)
(* The codec specification: a frame is chosen and the decoders are called. *)
(***************************************************************************)
NoCall == [kind |-> "none", mux |-> FALSE]
NoResult == [ok |-> FALSE, what |-> "none", actual |-> 0, expected |-> 0]

InitCodecIdle ==
    /\ frame = << >>
    /\ call = NoCall
    /\ decoded = NoResult

InitCodec ==
    /\ frame \in Frames
    /\ call = NoCall
    /\ decoded = NoResult
    /\ variant = "device"
    /\ InitSession
    /\ deviceCaps = FullDevice

\* one call of a record decoder on the frame
Decode(kind, isMultiplexed) ==
    /\ call' = [kind |-> kind, mux |-> isMultiplexed]
    /\ decoded' = parse(kind, frame, isMultiplexed)
    /\ UNCHANGED <<frame, sessionVars>>

DecodeGeneralStatus == \E m \in BOOLEAN : Decode("general_status", m)
DecodeAdditionalStatus == \E m \in BOOLEAN : Decode("additional_status", m)
DecodeStrokeData == \E m \in BOOLEAN : Decode("stroke_data", m)
DecodeSplitIntervalData == \E m \in BOOLEAN : Decode("split_data", m)

\* one call of readInt16LE / readInt24LE at offset 0 of the frame; on a
\* frame too short for the read the DataView throws a RangeError
ReadInt(kind, width) ==
    /\ call' = [kind |-> kind, mux |-> FALSE]
    /\ decoded' = IF Len(frame) < width
                  THEN FormatError("RangeError", Len(frame), width)
                  ELSE [ok |-> TRUE,
                        value |-> IF width = 2 THEN readInt16LE(frame, 0)
                                  ELSE readInt24LE(frame, 0)]
    /\ UNCHANGED <<frame, sessionVars>>

ReadInt16 == ReadInt("readInt16LE", 2)
ReadInt24 == ReadInt("readInt24LE", 3)

\* one command, whose opcode is the first byte of the frame and whose
\* parameters are the rest, is built and written, and the bytes written are
\* decoded
SendCommand ==
    /\ Len(frame) >= 1
    /\ call' = [kind |-> "command", mux |-> FALSE]
    /\ decoded' =
          DecodeCommand(WrittenBytes(EncodeCommand(frame[1], Tail(frame))))
    /\ UNCHANGED <<frame, sessionVars>>

\* one call of parseMultiplexedData on the frame
DecodeMultiplexed ==
    /\ call' = [kind |-> "multiplexed", mux |-> TRUE]
    /\ decoded' = parseMultiplexedData(frame)
    /\ UNCHANGED <<frame, sessionVars>>

NextCodec ==
    \/ DecodeGeneralStatus
    \/ DecodeAdditionalStatus
    \/ DecodeStrokeData
    \/ DecodeSplitIntervalData
    \/ DecodeMultiplexed
    \/ ReadInt16
    \/ ReadInt24
    \/ SendCommand

SpecCodec == InitCodec /\ [][NextCodec]_vars

(***************************************************************************)
(* The hex specification: a hex string is chosen and sendControlBytes is   *)
(* called on it.                                                           *)
(***************************************************************************)
InitHex ==
    /\ frame \in HexStrings
    /\ call = NoCall
    /\ decoded = NoResult
    /\ variant = "monitor"
    /\ InitSession
    /\ deviceCaps = FullDevice

SendControlBytes ==
    /\ call' = [kind |-> "sendControlBytes", mux |-> FALSE]
    /\ decoded' = sendControlBytes(frame)
    /\ UNCHANGED <<frame, sessionVars>>

NextHex == SendControlBytes

SpecHex == InitHex /\ [][NextHex]_vars

(***************************************************************************)
(* The session specification: one PM5Device of src/device.js or of the     *)
(* CSAFE source, its peripheral and its consumer.                          *)
(***************************************************************************)
Init ==
    /\ InitCodecIdle
    /\ variant \in {"device", "csafe"}
    /\ InitSession

Next ==
    \/ SetObservers
    \/ ConnectCall
    \/ GattConnected
    \/ GattConnectFailed
    \/ GetPrimaryService
    \/ ReadDeviceInformation
    \/ LinkLost
    \/ Disconnect
    \/ StartRowingCall
    \/ StartStream
    \/ StartStreamFailed
    \/ StartMultiplexed
    \/ StopRowingCall
    \/ StopStream
    \/ Notification

Spec == Init /\ [][Next]_vars

\* the steps the session and the Bluetooth stack take on their own once an
\* operation is in flight: a pending promise settles
SessionSteps ==
    \/ GattConnected
    \/ GetPrimaryService
    \/ ReadDeviceInformation
    \/ StartStream
    \/ StartStreamFailed
    \/ StartMultiplexed
    \/ StopStream

\* the steps of a session whose device is always reachable: gatt.connect()
\* never rejects
NextReachable ==
    \/ SetObservers
    \/ ConnectCall
    \/ LinkLost
    \/ Disconnect
    \/ StartRowingCall
    \/ StopRowingCall
    \/ Notification
    \/ SessionSteps

\* the session specification with a reachable device and every pending
\* promise settling; the consumer's calls, the loss of the link and
\* notifications stay free
SpecLive == Init /\ [][NextReachable]_vars /\ WF_vars(SessionSteps)

(***************************************************************************)
(* The replacement specification: the session specification with a         *)
(* consumer that reconnects by constructing a new PM5Device.               *)
(***************************************************************************)
NextReplace ==
    \/ ReplaceDevice
    \/ Next

SpecReplace == Init /\ [][NextReplace]_vars

(***************************************************************************)
(* The observer specification: one PM5Device of src/device.js whose         *)
(* consumer assigns its rowing callbacks one by one, at any moment.        *)
(***************************************************************************)
InitObservers ==
    /\ InitCodecIdle
    /\ variant = "device"
    /\ InitSession

NextObservers ==
    \/ AttachObserver
    \/ ConnectCall
    \/ GattConnected
    \/ GetPrimaryService
    \/ ReadDeviceInformation
    \/ LinkLost
    \/ StartRowingCall
    \/ StartStream
    \/ StartStreamFailed
    \/ Notification
    \/ NotificationCallbackThrows

SpecObservers == InitObservers /\ [][NextObservers]_vars

(***************************************************************************)
(* The monitor specification: one PM5Device of the source with the control *)
(* service and the generic characteristic monitor, its consumer using the  *)
(* RX control characteristic and the generic monitor.                      *)
(***************************************************************************)
InitMonitor ==
    /\ InitCodecIdle
    /\ variant = "monitor"
    /\ InitSession

NextMonitor ==
    \/ SetObservers
    \/ ConnectCall
    \/ GattConnected
    \/ GattConnectFailed
    \/ GetPrimaryService
    \/ ReadDeviceInformation
    \/ LinkLost
    \/ Disconnect
    \/ StartControlRxCall
    \/ StartControlRxDone
    \/ StopControlRxCall
    \/ StopControlRxDone
    \/ SendControlBytesCall
    \/ SendControlBytesDone
    \/ DiscoverCall
    \/ DiscoverDone
    \/ Subscribe
    \/ SubscribeUnsubDone
    \/ SubscribeStartDone
    \/ UnsubscribeCall
    \/ UnsubscribeDone
    \/ Notification

SpecMonitor == InitMonitor /\ [][NextMonitor]_vars

(***************************************************************************)
(* The overlap specification: the generic characteristic monitor of the    *)
(* same source, whose consumer lets subscribeToCharacteristic invocations  *)
(* overlap.                                                                *)
(***************************************************************************)
NextOverlap ==
    \/ SetObservers
    \/ ConnectAlone
    \/ GattConnected
    \/ GattConnectFailed
    \/ GetPrimaryService
    \/ ReadDeviceInformation
    \/ LinkLost
    \/ Disconnect
    \/ DiscoverAlone
    \/ DiscoverDone
    \/ OverlapSubscribe
    \/ OverlapSettled
    \/ UnsubscribeAlone
    \/ UnsubscribeDone
    \/ Notification

SpecOverlap == InitMonitor /\ [][NextOverlap]_vars

(***************************************************************************)
(* Properties.                                                             *)
(***************************************************************************)
\* the length the decoder of the last call needs: the minimum length of its
\* record plus one for the tag byte of a multiplexed frame
DecodeNeed ==
    (CASE call.kind = "general_status"    -> 19
       [] call.kind = "additional_status" -> 16
       [] call.kind = "stroke_data"       -> 20
       [] call.kind = "split_data"        -> 18
       [] OTHER                           -> 0)
    + (IF call.mux THEN 1 ELSE 0)

\* C1: a record decoder called on a frame of length L fails if and only if
\* L < minLength + offset (minimum lengths 19, 16, 20, 18; offset 1 for a
\* multiplexed frame, else 0); the failure reports expected = minLength +
\* offset and actual = L; a success returns a record that is the same as the
\* one decoded from the first minLength + offset bytes alone.
DecodeLengthContract ==
    call.kind \in RecordKinds =>
        /\ decoded.ok <=> Len(frame) >= DecodeNeed
        /\ ~decoded.ok =>
               decoded.expected = DecodeNeed /\ decoded.actual = Len(frame)
        /\ decoded.ok =>
               decoded = parse(call.kind, Prefix(frame, DecodeNeed), call.mux)

\* the stroke decoder has rejected a multiplexed frame that is one byte short
DecodeShortByOne ==
    /\ call.kind = "stroke_data"
    /\ call.mux
    /\ Len(frame) = 20
    /\ ~decoded.ok
    /\ decoded.expected = 21
    /\ decoded.actual = 20

DedicatedSet == {DedicatedChars[i] : i \in 1..Len(DedicatedChars)}

\* C2: while the session is connected, whatever start and stop calls were
\* made, a well-formed notification on a dedicated rowing characteristic
\* whose stream is switched on causes exactly one observer invocation.
OneInvocationPerNotification ==
    (/\ isConnected
     /\ lastNotif.char \in DedicatedSet \cap notifying
     /\ lastNotif.wellFormed)
        => lastNotif.data = 1

\* stopRowingDataNotifications has returned and only notifications have been
\* dispatched since
AfterStop == op.name = "idle" /\ opResult.name = "stop"

\* C3: a notification that arrives on a rowing characteristic after
\* stopRowingDataNotifications has returned causes no invocation of
\* onWorkoutData, onStrokeData or onSplitData.
NoInvocationAfterStop ==
    (AfterStop /\ lastNotif.char \in DedicatedSet) => lastNotif.data = 0

\* unsubscribeFromCharacteristic has returned successfully and only
\* notifications have been dispatched since
AfterUnsubscribe ==
    /\ op.name = "idle"
    /\ opResult.name = "unsubscribe"
    /\ opResult.result = "ok"

\* C4: once unsubscribeFromCharacteristic has returned successfully the
\* active subscription is null, and a notification dispatched after that
\* return, or while the stopNotifications of the call is pending, causes no
\* onCharacteristicData invocation.
UnsubscribeSilences ==
    /\ AfterUnsubscribe => activeSub = NoSub
    /\ (lastNotif.char # "none" /\ (AfterUnsubscribe \/ op.name = "unsubscribe"))
           => lastNotif.raw = 0

\* a notification has been dispatched on the characteristic of a subscription
\* after unsubscribeFromCharacteristic returned successfully for it
NotifiedAfterUnsubscribe ==
    /\ AfterUnsubscribe
    /\ lastNotif.char = opResult.uuid

\* C5: every gattserverdisconnected event makes exactly one onDisconnected
\* invocation, whatever streams are switched on and whatever operation is in
\* flight, and no other step makes one.
OneDisconnectedPerLinkLoss == disconnectedCalls = linkDrops

\* the link was lost while startRowingDataNotifications was in flight with
\* two streams already switched on, and onDisconnected was invoked once
LinkLostDuringStart ==
    /\ linkDrops = 1
    /\ disconnectedCalls = 1
    /\ op.name = "start"
    /\ op.k = 3

\* C6: after a link loss the cached services are emptied and the active
\* characteristic subscription is null.
NoSubscriptionAfterLinkLoss ==
    linkDrops = 1 =>
        /\ \A s \in ServiceNames : services[s] = "unset"
        /\ activeSub = NoSub

\* C7: a subscribe operation called while the session is not Ready fails with
\* an error and attaches no notification handler.
ColdSubscribeFails ==
    (opResult.name \in {"start", "startRx", "subscribe"} /\ opResult.cold)
        => (opResult.result = "error" /\ ~opResult.attached)

\* C8: with the link lost and no connect() in flight, isConnected is false.
DisconnectedAfterLinkLoss ==
    (connectPc = "idle" /\ ~linkUp) => ~isConnected

\* C9: when connect() has rejected, isConnected is false, no link is left
\* open and server is null.
RejectedConnectRestoresDisconnected ==
    (connectPc = "idle" /\ connectResult = "error")
        => (~isConnected /\ ~linkUp /\ server = "null")

\* C10: isConnected is true in no state in which a required service has not
\* been obtained.
ConnectedOnlyAfterDiscovery ==
    isConnected =>
        \A i \in 1..Len(ServiceOrder(variant)) :
            services[ServiceOrder(variant)[i]] # "unset"

\* C11: when disconnect() takes the link down, stopNotifications() has been
\* requested on every characteristic whose notifications were switched on,
\* before the session is finalized as disconnected.
DisconnectStopsEveryStream ==
    teardown.by = "disconnect" => teardown.was \subseteq teardown.stops

\* a notification that the listeners of its characteristic cannot decode
\* has just been handled by at least one listener
Malformed(n) == n.char # "none" /\ ~n.wellFormed

\* C12: handling a malformed notification leaves isConnected, server,
\* services, the switched-on streams and all attached listeners as they
\* were, invokes no observer and lets no exception out of the listener, so
\* every stream keeps decoding and delivering later notifications.
MalformedNotificationIsHarmless ==
    [][Malformed(lastNotif') =>
          /\ UNCHANGED <<isConnected, server, services, linkUp, notifying,
                         late, listeners, rawListeners, observers>>
          /\ lastNotif'.data = 0
          /\ ~lastNotif'.escaped]_vars

MalformedHandled ==
    /\ Malformed(lastNotif)
    /\ lastNotif.char \in notifying
    /\ listeners[lastNotif.char] > 0
    /\ isConnected
    /\ \E c \in notifying \ {lastNotif.char} : listeners[c] > 0

\* C13: a malformed notification handled by the one listener of its stream
\* hands exactly one parse-error event to the consumer.
ParseErrorEventPerMalformed ==
    (Malformed(lastNotif) /\ listeners[lastNotif.char] = 1)
        => lastNotif.errors = 1

\* C14: a multiplexed notification that decodes to one of the four record
\* types is handed, exactly once, to the registered observer of that record
\* category.
MultiplexedRoutedToObserver ==
    (/\ lastNotif.char = "multiplexed"
     /\ lastNotif.type \in RecordKinds
     /\ listeners["multiplexed"] = 1
     /\ ObserverOf(lastNotif.type) \in observers)
        => (/\ lastNotif.observer = ObserverOf(lastNotif.type)
            /\ lastNotif.data = 1)

\* the record type a tag byte of the multiplexed envelope stands for
TagType(tag) ==
    CASE tag = 49 -> "general_status"
      [] tag = 50 -> "additional_status"
      [] tag = 53 -> "stroke_data"
      [] tag = 55 -> "split_data"

\* the multiplexed decoder was called on a frame whose first byte is tag
MuxCallOn(tags) ==
    /\ call.kind = "multiplexed"
    /\ Len(frame) >= 1
    /\ frame[1] \in tags

\* C15: decoding [tag] ++ p as a multiplexed envelope, for a tag of the four
\* record types and a payload p of at least the minimum length of the
\* record, yields the record type of the tag with the same field values as
\* decoding p directly as that record type.
MultiplexedEqualsDirect ==
    (/\ MuxCallOn({49, 50, 53, 55})
     /\ Len(frame) - 1 >= MinLength(TagType(frame[1])))
        => /\ decoded.ok
           /\ decoded.type = TagType(frame[1])
           /\ parse(TagType(frame[1]), Tail(frame), FALSE).ok
           /\ decoded.data = parse(TagType(frame[1]), Tail(frame), FALSE).rec

MultiplexedStrokeDecoded ==
    /\ MuxCallOn({53})
    /\ Len(frame) = 21
    /\ frame[21] = 255
    /\ decoded.ok
    /\ decoded.type = "stroke_data"
    /\ decoded.data.stroke_count = 100 + 255 * 256

\* C16: decoding a multiplexed frame whose tag byte is none of 0x31, 0x32,
\* 0x35, 0x37 succeeds with the unknown outcome, whatever the length of the
\* frame from one byte on.
UnknownTagDecodes ==
    MuxCallOn((0..255) \ {49, 50, 53, 55})
        => decoded.ok /\ decoded.type = "unknown"

UnknownTagAlone ==
    /\ MuxCallOn({54})
    /\ Len(frame) = 1
    /\ decoded.ok
    /\ decoded.type = "unknown"

\* C17: the unknown outcome of a multiplexed decode carries the tag byte and
\* the bytes of the frame after byte 0, unchanged and in order.
UnknownCarriesRemainder ==
    (call.kind = "multiplexed" /\ decoded.ok /\ decoded.type = "unknown")
        => /\ decoded.uuid = frame[1]
           /\ decoded.data # "null"
           /\ decoded.data = Tail(frame)

\* the unsigned little-endian integers at offset o of the frame
u16le(o) == frame[o + 1] + 256 * frame[o + 2]
u24le(o) == frame[o + 1] + 256 * frame[o + 2] + 65536 * frame[o + 3]
\* the value raw x 1/den
Times(raw, den) == [raw |-> raw, den |-> den]

\* a record decoder was called on a direct frame and returned a record
DirectRecord(kind) == call.kind = kind /\ ~call.mux /\ decoded.ok

\* C18: for a frame of at least 19 bytes parseGeneralStatus returns
\* elapsed_time = u24le(0) x 0.01, distance = u24le(3) x 0.1, workout_type,
\* interval_type, workout_state, rowing_state, stroke_state = bytes 6..10,
\* total_work_distance = u24le(11), workout_duration = u24le(14),
\* workout_duration_type = byte 17, drag_factor = byte 18; the frame
\* 64 00 00 E8 03 00 01 00 01 01 02 00 00 00 00 00 00 00 73 yields
\* elapsed_time 1.00, distance 100.0, workout_type 1, interval_type 0,
\* workout_state 1, rowing_state 1, stroke_state 2, drag_factor 115.
GeneralStatusFields ==
    /\ (call.kind = "general_status" /\ ~call.mux /\ Len(frame) >= 19)
           => decoded.ok
    /\ DirectRecord("general_status") =>
        /\ decoded.rec =
              [elapsed_time          |-> Times(u24le(0), 100),
               distance              |-> Times(u24le(3), 10),
               workout_type          |-> frame[7],
               interval_type         |-> frame[8],
               workout_state         |-> frame[9],
               rowing_state          |-> frame[10],
               stroke_state          |-> frame[11],
               total_work_distance   |-> u24le(11),
               workout_duration      |-> u24le(14),
               workout_duration_type |-> frame[18],
               drag_factor           |-> frame[19]]
        /\ frame = <<100, 0, 0, 232, 3, 0, 1, 0, 1, 1, 2, 0, 0, 0, 0, 0, 0,
                     0, 115>> =>
              /\ decoded.rec.elapsed_time = Times(100, 100)
              /\ decoded.rec.distance = Times(1000, 10)
              /\ decoded.rec.workout_type = 1
              /\ decoded.rec.interval_type = 0
              /\ decoded.rec.workout_state = 1
              /\ decoded.rec.rowing_state = 1
              /\ decoded.rec.stroke_state = 2
              /\ decoded.rec.drag_factor = 115

SampleGeneralStatusDecoded ==
    /\ DirectRecord("general_status")
    /\ frame = <<100, 0, 0, 232, 3, 0, 1, 0, 1, 1, 2, 0, 0, 0, 0, 0, 0, 0, 115>>
    /\ decoded.rec.distance = Times(1000, 10)
    /\ decoded.rec.drag_factor = 115

\* C19: for a frame of at least 16 bytes parseAdditionalStatus returns
\* elapsed_time = u24le(0) x 0.01, speed = u16le(3) x 0.001, stroke_rate =
\* byte 5, heart_rate = byte 6, current_pace = u16le(7) x 0.01, average_pace
\* = u16le(9) x 0.01, rest_distance = u16le(11), rest_time = u24le(13) x
\* 0.01, each the unsigned little-endian integer of its own bytes only.
AdditionalStatusFields ==
    /\ (call.kind = "additional_status" /\ ~call.mux /\ Len(frame) >= 16)
           => decoded.ok
    /\ DirectRecord("additional_status") =>
          decoded.rec =
              [elapsed_time  |-> Times(u24le(0), 100),
               speed         |-> Times(u16le(3), 1000),
               stroke_rate   |-> frame[6],
               heart_rate    |-> frame[7],
               current_pace  |-> Times(u16le(7), 100),
               average_pace  |-> Times(u16le(9), 100),
               rest_distance |-> u16le(11),
               rest_time     |-> Times(u24le(13), 100)]

AdditionalStatusDecoded ==
    /\ DirectRecord("additional_status")
    /\ Len(frame) = 16
    /\ frame[5] = 255
    /\ decoded.rec.speed = Times(100 + 255 * 256, 1000)
    /\ decoded.rec.stroke_rate = 100

\* C20: for a frame of at least 20 bytes parseStrokeData returns
\* elapsed_time = u24le(0) x 0.01, distance = u24le(3) x 0.1, drive_length =
\* byte 6 x 0.01, drive_time = byte 7 x 0.01, stroke_recovery_time =
\* u16le(8) x 0.01, stroke_distance = u16le(10) x 0.01, peak_drive_force =
\* u16le(12) x 0.1, average_drive_force = u16le(14) x 0.1, work_per_stroke =
\* u16le(16) x 0.1, stroke_count = u16le(18).
StrokeDataFields ==
    /\ (call.kind = "stroke_data" /\ ~call.mux /\ Len(frame) >= 20)
           => decoded.ok
    /\ DirectRecord("stroke_data") =>
          decoded.rec =
              [elapsed_time         |-> Times(u24le(0), 100),
               distance             |-> Times(u24le(3), 10),
               drive_length         |-> Times(frame[7], 100),
               drive_time           |-> Times(frame[8], 100),
               stroke_recovery_time |-> Times(u16le(8), 100),
               stroke_distance      |-> Times(u16le(10), 100),
               peak_drive_force     |-> Times(u16le(12), 10),
               average_drive_force  |-> Times(u16le(14), 10),
               work_per_stroke      |-> Times(u16le(16), 10),
               stroke_count         |-> u16le(18)]

StrokeDataDecoded ==
    /\ DirectRecord("stroke_data")
    /\ Len(frame) = 20
    /\ frame[8] = 255
    /\ decoded.rec.drive_time = Times(255, 100)
    /\ decoded.rec.drive_length = Times(100, 100)

\* C21: for a frame of at least 18 bytes parseSplitIntervalData returns
\* elapsed_time = u24le(0) x 0.01, distance = u24le(3) x 0.1, split_time =
\* u24le(6) x 0.1, split_distance = u24le(9) x 0.1, rest_time = u16le(12),
\* rest_distance = u16le(14), split_type = byte 16, split_number = byte 17.
SplitDataFields ==
    /\ (call.kind = "split_data" /\ ~call.mux /\ Len(frame) >= 18)
           => decoded.ok
    /\ DirectRecord("split_data") =>
          decoded.rec =
              [elapsed_time   |-> Times(u24le(0), 100),
               distance       |-> Times(u24le(3), 10),
               split_time     |-> Times(u24le(6), 10),
               split_distance |-> Times(u24le(9), 10),
               rest_time      |-> u16le(12),
               rest_distance  |-> u16le(14),
               split_type     |-> frame[17],
               split_number   |-> frame[18]]

SplitDataDecoded ==
    /\ DirectRecord("split_data")
    /\ Len(frame) = 18
    /\ frame[14] = 255
    /\ decoded.rec.rest_time = 100 + 255 * 256
    /\ decoded.rec.rest_distance = 100 + 100 * 256

\* C22: the 24-bit read of bytes b0, b1, b2 returns b0 + 256*b1 + 65536*b2,
\* a value in 0..16777215 that is never negative, and the 16-bit read of
\* bytes b0, b1 returns b0 + 256*b1, a value in 0..65535.
UnsignedLittleEndianReads ==
    /\ (call.kind = "readInt24LE" /\ Len(frame) >= 3) =>
          /\ decoded.ok
          /\ decoded.value = frame[1] + 256 * frame[2] + 65536 * frame[3]
          /\ decoded.value \in 0..16777215
    /\ (call.kind = "readInt16LE" /\ Len(frame) >= 2) =>
          /\ decoded.ok
          /\ decoded.value = frame[1] + 256 * frame[2]
          /\ decoded.value \in 0..65535

LargestInt24Read ==
    /\ call.kind = "readInt24LE"
    /\ frame = <<255, 255, 255>>
    /\ decoded.ok
    /\ decoded.value = 16777215

\* C23: when reads of device-information fields have failed during connect,
\* connect() has not failed, every field whose read failed is unset (null)
\* and every other field has been read and stored.
FailedInfoReadLeavesNull ==
    infoFailed # {} =>
        /\ connectPc = "idle"
        /\ connectResult = "ok"
        /\ \A f \in infoFailed : deviceInfo[f] = "null"
        /\ \A f \in InfoFields \ infoFailed : deviceInfo[f] = "text"

\* C24: on a device without the multiplexed characteristic, a
\* startRowingDataNotifications whose four dedicated streams have started
\* returns without error, with the four dedicated streams switched on and a
\* listener on each, and a record notified on a dedicated stream afterwards
\* is delivered to its observer.
MultiplexedAbsentStartSucceeds ==
    [][/\ (/\ variant = "csafe"
           /\ "multiplexed" \notin deviceCaps
           /\ op.name = "start"
           /\ op.k = Len(DedicatedChars) + 1
           /\ op'.name = "idle"
           /\ RowingUsable)
          => /\ opResult'.name = "start"
             /\ opResult'.result = "ok"
             /\ DedicatedSet \subseteq notifying'
             /\ \A c \in DedicatedSet : listeners'[c] >= 1
             /\ "multiplexed" \notin notifying'
       /\ (/\ variant = "csafe"
           /\ "multiplexed" \notin deviceCaps
           /\ opResult'.name = "start"
           /\ opResult'.result = "ok"
           /\ lastNotif'.char \in DedicatedSet
           /\ lastNotif'.wellFormed
           /\ ObserverOf(lastNotif'.char) \in observers)
          => lastNotif'.data >= 1]_vars

DedicatedDeliversWithoutMultiplexed ==
    /\ variant = "csafe"
    /\ "multiplexed" \notin deviceCaps
    /\ opResult.name = "start"
    /\ opResult.result = "ok"
    /\ notifying = DedicatedSet
    /\ lastNotif.char = "split_data"
    /\ lastNotif.data = 1

\* C25: on a device that has the information and rowing services but not
\* the control service, a connect() that has settled with the link up has
\* succeeded and the session is connected.
ControlAbsentConnectSucceeds ==
    (/\ "control" \notin deviceCaps
     /\ {"information", "rowing"} \subseteq deviceCaps
     /\ connectPc = "idle"
     /\ connectResult # "none"
     /\ linkUp)
        => connectResult = "ok" /\ isConnected

\* C26: in every reachable state at most one notification handler is
\* attached per characteristic; for the generic monitor at most one
\* characteristic has a handler of it attached, and that characteristic is
\* the one recorded in activeCharacteristicSubscription.
AtMostOneHandlerPerCharacteristic ==
    /\ \A c \in Chars : listeners[c] <= 1 /\ rawListeners[c] <= 1
    /\ \A c, d \in Chars :
          (rawListeners[c] > 0 /\ rawListeners[d] > 0) => c = d
    /\ \A c \in Chars : rawListeners[c] > 0 => activeSub.uuid = c

\* C27: a disconnect() called while the link is up leaves the link down and
\* the session disconnected, and the consumer receives exactly one
\* Disconnected event for it; a disconnect() called in any other state
\* changes nothing and emits no event.
DisconnectAlwaysDisconnects ==
    teardown.by = "disconnect" =>
        IF teardown.wasUp
        THEN /\ ~linkUp
             /\ ~isConnected
             /\ linkDrops = 1
             /\ disconnectedCalls = OnDisconnectedCalls(observers)
        ELSE linkDrops = 0 /\ disconnectedCalls = 0

\* C28: when a command send issued while the session is Ready fails in the
\* transport, the failure is returned to the caller and the session goes
\* through the link-lost transition: afterwards the link is down and the
\* session is disconnected.
SendFailureDisconnects ==
    (opResult.name = "send" /\ opResult.result = "error" /\ ~opResult.cold)
        => (~linkUp /\ ~isConnected)

\* C29: after an unsolicited loss of the link to a device that offers every
\* service, the session eventually has the link up and is connected again,
\* whether or not the consumer calls connect().
ReconnectsAfterLinkLoss ==
    (teardown.by = "loss" /\ deviceCaps = FullDevice)
        ~> (linkUp /\ isConnected)

RawHandlers ==
    Cardinality({p \in Chars \X (1..(MaxListeners + 2)) : p[2] <= rawListeners[p[1]]})

\* C31: once two overlapping subscribeToCharacteristic invocations have
\* settled, at most one handler of the generic monitor is attached, it is
\* the handler recorded in activeCharacteristicSubscription, and after an
\* unsubscribeFromCharacteristic that succeeded none is attached
OverlapLeavesOneHandler ==
    (NoneInFlight /\ op.name = "idle") =>
        /\ RawHandlers <= 1
        /\ RawHandlers = 1 =>
              /\ activeSub.attached
              /\ activeSub.uuid \in Chars
              /\ rawListeners[activeSub.uuid] = 1
        /\ (opResult.name = "unsubscribe" /\ opResult.result = "ok") =>
              RawHandlers = 0

\* the Errors the record decoders throw for a frame that is too short
LengthErrors ==
    {"general status", "additional status", "stroke data", "split data"}

\* C32: a zero-length frame decoded as a multiplexed envelope fails with the
\* length Error of the too-short frames, which reports the expected and the
\* actual length, and with no other kind of error
EmptyEnvelopeIsLengthError ==
    (call.kind = "multiplexed" /\ Len(frame) = 0) =>
        (~decoded.ok /\ decoded.what \in LengthErrors)

\* C33: after the consumer has replaced its PM5Device by a new one on the
\* same Bluetooth device object, a loss of the link invokes onDisconnected
\* once, on the current PM5Device only
ReplacedDeviceIsSilent ==
    (linkDrops = 1 /\ retired > 0 /\ "onDisconnected" \in observers) =>
        disconnectedCalls = 1

\* startRowingDataNotifications moves on from the await of dedicated stream k
StartAdvances ==
    /\ op.name = "start"
    /\ op.k \in 1..Len(DedicatedChars)
    /\ op' # op

\* stream k is switched on and its handler attached, and the operation goes
\* on to stream k + 1 or resolves
StartedInOrder ==
    LET c == DedicatedChars[op.k] IN
    /\ notifying' = notifying \cup {c}
    /\ listeners' = [listeners EXCEPT ![c] = @ + 1]
    /\ \/ op'.name = "start" /\ op'.k = op.k + 1
       \/ op' = Idle /\ opResult'.name = "start" /\ opResult'.result = "ok"

\* the operation rejects at stream k: nothing is switched off and no handler
\* is removed, so that on a link that is up the streams before k are on with
\* their handlers, and no later stream is touched
RejectedWithoutRollback ==
    /\ op' = Idle
    /\ opResult'.name = "start" /\ opResult'.result = "error"
    /\ notifying' = notifying
    /\ listeners' = listeners
    /\ linkUp' =>
          \A j \in 1..(op.k - 1) :
             /\ DedicatedChars[j] \in notifying'
             /\ listeners'[DedicatedChars[j]] >= 1

\* C34: startRowingDataNotifications starts the dedicated streams in the
\* order general status, additional status, stroke data, split data; when
\* the start of stream k fails it rejects, the streams before k stay on with
\* their handlers attached, and the streams after k are not started
StartsInOrderWithoutRollback ==
    [][StartAdvances => (StartedInOrder \/ RejectedWithoutRollback)]_vars

\* a start rejected at the second stream, after which a general status
\* notification still reaches onWorkoutData and additional status is off
FailedStartKeepsDelivering ==
    /\ opResult.name = "start" /\ opResult.result = "error"
    /\ opResult.attached
    /\ linkUp
    /\ lastNotif.char = "general_status"
    /\ lastNotif.data >= 1
    /\ notifying = {"general_status"}
    /\ late = {}

\* stopRowingDataNotifications moves on from a turn of its loop
StopAdvances == op.name = "stop" /\ op' # op

\* the turn is followed by the next one, or was the last and the operation
\* resolves
NextTurnOrResolved ==
    \/ /\ op.k < Len(StopOrder(variant))
       /\ op'.name = "stop" /\ op'.k = op.k + 1
    \/ /\ op.k = Len(StopOrder(variant))
       /\ op' = Idle
       /\ opResult'.name = "stop" /\ opResult'.result = "ok"

\* C35: stopRowingDataNotifications never rejects because of one stream: it
\* attempts every rowing characteristic in turn whether or not the turn
\* before failed and then resolves, and when no stream is on, the link is
\* down or isConnected is false it changes nothing of the session
StopAttemptsEveryStream ==
    [][StopAdvances =>
          /\ NextTurnOrResolved
          /\ (notifying = {} \/ ~linkUp \/ ~isConnected) =>
                UNCHANGED <<linkUp, notifying, late, listeners, rawListeners,
                            deviceVars, connectPc, connectResult>>]_vars

\* a stop that resolved although the turn of general status failed: that
\* stream is still on and the following ones were switched off
StopResolvedAfterFailedTurn ==
    /\ opResult.name = "stop" /\ opResult.result = "ok"
    /\ linkUp
    /\ notifying = {"general_status"}
    /\ {"additional_status", "stroke_data", "split_data"} \subseteq late

\* C36: a subscribeToCharacteristic call that fails leaves the subscription as
\* it was: the subscription recorded when the call was made is, on a link
\* that is up, still recorded, its handler attached and its stream on
FailedSubscribeKeepsSubscription ==
    [][(/\ op.name = "subscribe"
        /\ op' = Idle
        /\ opResult'.result = "error"
        /\ linkUp'
        /\ activeSub # NoSub)
       => /\ activeSub' # NoSub
          /\ activeSub'.attached
          /\ activeSub'.uuid \in notifying'
          /\ rawListeners'[activeSub'.uuid] >= 1]_vars

\* C37: whenever no call of the generic monitor is in flight,
\* activeCharacteristicSubscription is non-null exactly if its handler is
\* attached to its characteristic, also after an
\* unsubscribeFromCharacteristic whose stopNotifications failed
SubscriptionRecordMatchesHandler ==
    op.name = "idle" => ((activeSub # NoSub) <=> activeSub.attached)

\* the latest step dispatched a well-formed notification of a dedicated
\* characteristic whose callback property is null
DiscardedNotification ==
    /\ lastNotif.char \in DedicatedSet
    /\ lastNotif.wellFormed
    /\ ObserverOf(lastNotif.char) \notin observers

\* C38: a well-formed notification of a record category whose callback is
\* null is decoded and discarded: no callback runs, no error is raised and
\* nothing of the session changes; assigning a callback later invokes
\* nothing, and from then on a notification invokes it once per handler
ObserverlessNotificationDiscarded ==
    [][/\ DiscardedNotification' =>
             /\ lastNotif'.data = 0
             /\ lastNotif'.errors = 0
             /\ ~lastNotif'.escaped
             /\ UNCHANGED <<transportVars, deviceVars, asyncVars, scenarioVars>>
       /\ observers' # observers =>
             /\ lastNotif' = NoNotif
             /\ UNCHANGED <<transportVars, asyncVars>>
       /\ (/\ lastNotif'.char \in DedicatedSet
           /\ lastNotif'.wellFormed
           /\ ObserverOf(lastNotif'.char) \in observers') =>
             lastNotif'.data = listeners'[lastNotif'.char]]_vars

\* a stroke data notification discarded on a stream with a handler, while
\* onWorkoutData is assigned and onStrokeData is null
StrokeDiscardedWithoutObserver ==
    /\ DiscardedNotification
    /\ lastNotif.char = "stroke_data"
    /\ listeners["stroke_data"] >= 1
    /\ lastNotif.data = 0
    /\ "onWorkoutData" \in observers

\* C39: an exception thrown by the consumer's callback while a record is
\* delivered stays inside the listener: it does not reach the stack, nothing
\* of the session changes, and the notification dispatched next on any
\* dedicated stream is delivered once per handler
CallbackExceptionContained ==
    [][/\ lastNotif'.threw =>
             /\ ~lastNotif'.escaped
             /\ lastNotif'.errors = 0
             /\ UNCHANGED <<transportVars, deviceVars, asyncVars, scenarioVars>>
       /\ (/\ lastNotif.threw
           /\ lastNotif'.char \in DedicatedSet
           /\ lastNotif'.wellFormed
           /\ ObserverOf(lastNotif'.char) \in observers') =>
             lastNotif'.data = listeners'[lastNotif'.char]]_vars

\* onStrokeData threw on a stroke data record it was handed
StrokeCallbackThrew ==
    /\ lastNotif.threw
    /\ lastNotif.char = "stroke_data"
    /\ lastNotif.observer = "onStrokeData"
    /\ lastNotif.data >= 1
    /\ "onWorkoutData" \in observers

\* the hex digits of the string under test, in input order
DigitsOf == SelectSeq(frame, LAMBDA ch : ch \in {"0", "1", "9", "a", "f", "A", "F"})

\* the value of a hex digit of the sample strings
SampleValue(ch) ==
    CASE ch = "0" -> 0 [] ch = "1" -> 1 [] ch = "9" -> 9
      [] ch \in {"a", "A"} -> 10 [] ch \in {"f", "F"} -> 15

\* C40: sendControlBytes drops every character that is not a hex digit; with
\* an odd number of digits left it rejects and writes nothing; otherwise it
\* writes one frame of half as many bytes as digits, byte i being the value
\* of the i-th pair of digits
HexPairsWritten ==
    call.kind = "sendControlBytes" =>
        IF Len(DigitsOf) % 2 = 1
        THEN ~decoded.ok /\ decoded.written = << >>
        ELSE /\ decoded.ok
             /\ Len(decoded.written) = 1
             /\ Len(decoded.written[1]) = Len(DigitsOf) \div 2
             /\ \A i \in 1..(Len(DigitsOf) \div 2) :
                   decoded.written[1][i] =
                      16 * SampleValue(DigitsOf[2 * i - 1])
                      + SampleValue(DigitsOf[2 * i])

\* the string "f 1x" written as the one byte 0xF1: the separator and the
\* letter x are dropped
MixedHexStringWritten ==
    /\ call.kind = "sendControlBytes"
    /\ frame = <<"f", " ", "1", "x">>
    /\ decoded.written = <<<<241>>>>
====
